---- MODULE Spec2Model ----
(***************************************************************************)
(* Annotation state management of pdfixr: the history engine               *)
(* (AnnotationHistoryService), the persistence gateway                     *)
(* (AnnotationPersistenceService) and the orchestrator that owns the       *)
(* annotation collection (AnnotationDemo).                                 *)
(*                                                                         *)
(* JavaScript values are modelled with their runtime type: a primitive is  *)
(* a record [t |-> typeof, v |-> payload]; a string's payload is its rank  *)
(* in localeCompare order (0 is the empty string), a Date's payload is its *)
(* time.  Annotation records are objects: a list of annotations is a       *)
(* sequence of references into the object table `heap`, so that the        *)
(* shallow array copies the code makes ([...list]) share their records.    *)
(***************************************************************************)
EXTENDS Integers, Sequences, FiniteSets, TLC

VARIABLES
  heap,           \* object table: reference -> annotation record
  history,        \* the AnnotationHistoryService: undoStack, redoStack, currentState
  debounceTimer,  \* AnnotationHistoryService.debounceTimer (0: null)
  timers,         \* the host's pending setTimeout callbacks
  documents,      \* AnnotationPersistenceService.documents (a Map)
  storage,        \* localStorage's item 'pdf-annotations', parsed
  outcome,        \* what the last gateway call did: setItem, its promise
  inFlight,       \* the addAnnotation calls waiting at their first await
  demo,           \* AnnotationDemo: its state `annotations`, its prop `pdfUrl`
  effects,        \* the effect React has scheduled and not yet run
  drawingState,   \* ShapeDrawer's state
  shapeProps,     \* ShapeDrawer's props: disabled, selectedTool, scale
  emitted,        \* the records the last event made ShapeDrawer pass to onAnnotationAdd
  layerAdded,     \* the records AnnotationLayer passed on to its onAnnotationAdd
  recent,         \* what the last event delivered to ShapeDrawer found
  selectionService, \* the TextSelectionService: currentSelection, options, listeners
  windowSelection,  \* window.getSelection()
  highlighter,    \* TextHighlighter's state: currentSelection, pendingHighlight
  textProps,      \* TextHighlighter's props: disabled, selectedTool, pageNumber
  notified,       \* the calls the last event made the service make to its listeners
  added,          \* the records the last event made TextHighlighter pass to onAnnotationAdd
  mapper,         \* a caller of the coordinate mapper: its viewport, the rectangles it converted
  call,           \* the operation last called
  ret             \* what that call returned

undoStack == history.undoStack
redoStack == history.redoStack
currentState == history.currentState

historyVars == <<history, debounceTimer, timers>>
gatewayVars == <<documents, storage, outcome, inFlight>>
appVars == <<demo, effects>>
shapeVars == <<drawingState, shapeProps, emitted, layerAdded, recent>>
textVars == <<selectionService, windowSelection, highlighter, textProps, notified, added>>
mapperVars == <<mapper>>
uiVars == <<shapeVars, textVars, mapperVars>>

(***************************************************************************)
(* Bounds of the model.                                                    *)
(***************************************************************************)
\* options.maxHistorySize the engine is constructed with (default 50)
maxHistorySize == 2
\* longest annotation list a caller passes
MaxAnnotations == 2
\* longest description an undo or redo may build, in words
MaxDescription == 4
\* highest version a stored document reaches
MaxVersion == 2
\* most objects the heap holds
MaxObjects == 6
\* latest instant the clock shows
MaxTime == 2

(***************************************************************************)
(* JavaScript values.                                                      *)
(***************************************************************************)
Undefined == [t |-> "undefined", v |-> 0]
Str(n) == [t |-> "string", v |-> n]
Num(n) == [t |-> "number", v |-> n]
DateOf(n) == [t |-> "date", v |-> n]
ArrayOf(s) == [t |-> "array", v |-> s]

\* ToBoolean of a value
Truthy(x) ==
  CASE x.t = "undefined" -> FALSE
    [] x.t = "null"      -> FALSE
    [] x.t = "string"    -> x.v # 0
    [] x.t = "number"    -> x.v # 0
    [] OTHER             -> TRUE

\* src/types/index.ts AnnotationData
Annotation(id, content, updatedAt) ==
  [ t           |-> "object",
    id          |-> Str(id),
    type        |-> Str(5),
    pageNumber  |-> Num(1),
    coordinates |-> [t |-> "object", x |-> Num(10), y |-> Num(20),
                     width |-> Num(30), height |-> Num(40), points |-> Undefined],
    style       |-> [t |-> "object", color |-> Str(1), strokeWidth |-> Num(2),
                     opacity |-> Num(1), fontSize |-> Undefined],
    content     |-> content,
    createdAt   |-> DateOf(1),
    updatedAt   |-> DateOf(updatedAt) ]

\* String(x) of a template literal, for the annotation types
\* (strings are ranked: 'arrow' 1, 'circle' 2, ..., 'rectangle' 5, ...)
TemplateString(x) ==
  CASE x.t = "undefined" -> "undefined"
    [] x = Str(5)        -> "rectangle"
    [] OTHER             -> "other"

\* typeof x === 'string', typeof x === 'number'
IsString(x) == x.t = "string"
IsNumber(x) == x.t \in {"number", "NaN"}

validateAnnotation(annotation) ==
  /\ Truthy(annotation)
  /\ IsString(annotation.id)
  /\ IsString(annotation.type)
  /\ IsNumber(annotation.pageNumber)
  /\ Truthy(annotation.coordinates)
  /\ IsNumber(annotation.coordinates.x)
  /\ IsNumber(annotation.coordinates.y)
  /\ Truthy(annotation.style)
  /\ IsString(annotation.style.color)
  /\ Truthy(annotation.createdAt)
  /\ Truthy(annotation.updatedAt)

\* The annotation objects callers hold: two versions of record 1 (before and
\* after an edit of its content), record 2, and a record without an id.
InitialHeap ==
  << Annotation(1, Str(1), 1), Annotation(1, Str(2), 2), Annotation(2, Str(1), 1),
     [Annotation(3, Str(1), 1) EXCEPT !.id = Undefined] >>

AllRefs == DOMAIN InitialHeap

\* the well-formed AnnotationData objects
Refs == {o \in AllRefs : validateAnnotation(InitialHeap[o])}

RECURSIVE SeqsUpTo(_, _)
SeqsUpTo(S, n) ==
  IF n = 0 THEN {<<>>}
  ELSE LET shorter == SeqsUpTo(S, n - 1)
       IN  shorter \cup {Append(s, x) : s \in shorter, x \in S}

Range(s) == {s[i] : i \in DOMAIN s}

\* ids are unique within a collection (crypto.randomUUID at creation)
DistinctIds(list, h) ==
  \A i, j \in DOMAIN list : i # j => h[list[i]].id # h[list[j]].id

AnnotationLists ==
  {l \in SeqsUpTo(Refs, MaxAnnotations) : DistinctIds(l, InitialHeap)}

Deref(list, h) == [i \in DOMAIN list |-> h[list[i]]]

(***************************************************************************)
(* History actions (the static constructors).                              *)
(***************************************************************************)
createAddAction(annotation) ==
  [ type          |-> "add",
    description   |-> <<"Add", TemplateString(annotation.type)>>,
    annotationIds |-> <<annotation.id>> ]

createUpdateAction(annotation) ==
  [ type          |-> "update",
    description   |-> <<"Update", TemplateString(annotation.type)>>,
    annotationIds |-> <<annotation.id>> ]

createDeleteAction(annotation) ==
  [ type          |-> "delete",
    description   |-> <<"Delete", TemplateString(annotation.type)>>,
    annotationIds |-> <<annotation.id>> ]

createBatchAction(description, annotationIds) ==
  [ type          |-> "batch",
    description   |-> description,
    annotationIds |-> annotationIds ]

\* The action a caller passes with a list: the addition of its last record,
\* or a batch action that cleared the collection.
ActionFor(annotations) ==
  IF annotations = <<>>
  THEN createBatchAction(<<"Clear">>, <<>>)
  ELSE createAddAction(InitialHeap[annotations[Len(annotations)]])

(***************************************************************************)
(* Equality of annotation lists.                                           *)
(***************************************************************************)
areAnnotationsDeepEqual(a, b) ==
  IF \/ a.id # b.id
     \/ a.type # b.type
     \/ a.pageNumber # b.pageNumber
     \/ a.content # b.content
  THEN FALSE
  ELSE IF \/ a.coordinates.x # b.coordinates.x
          \/ a.coordinates.y # b.coordinates.y
          \/ a.coordinates.width # b.coordinates.width
          \/ a.coordinates.height # b.coordinates.height
  THEN FALSE
  ELSE IF /\ (Truthy(a.coordinates.points) \/ Truthy(b.coordinates.points))
          /\ \/ ~Truthy(a.coordinates.points) \/ ~Truthy(b.coordinates.points)
             \/ Len(a.coordinates.points.v) # Len(b.coordinates.points.v)
             \/ \E i \in DOMAIN a.coordinates.points.v :
                   a.coordinates.points.v[i] # b.coordinates.points.v[i]
  THEN FALSE
  ELSE IF \/ a.style.color # b.style.color
          \/ a.style.strokeWidth # b.style.strokeWidth
          \/ a.style.opacity # b.style.opacity
          \/ a.style.fontSize # b.style.fontSize
  THEN FALSE
  ELSE TRUE

\* x.id.localeCompare(y.id) <= 0
IdLeq(x, y) == x.id.v <= y.id.v

\* [...list].sort((x, y) => x.id.localeCompare(y.id)): a stable insertion of
\* each element after the elements that do not compare greater
RECURSIVE SortById(_)
SortById(list) ==
  IF list = <<>> THEN <<>>
  ELSE LET n    == Len(list)
           init == SortById(SubSeq(list, 1, n - 1))
           x    == list[n]
           k    == Cardinality({i \in DOMAIN init : IdLeq(init[i], x)})
       IN  SubSeq(init, 1, k) \o <<x>> \o SubSeq(init, k + 1, Len(init))

\* a comparison that does not sort the lists first
areAnnotationsEqualUnsorted(a, b) ==
  IF Len(a) # Len(b) THEN FALSE
  ELSE \A i \in DOMAIN a : areAnnotationsDeepEqual(a[i], b[i])

areAnnotationsEqual(a, b) ==
  IF Len(a) # Len(b) THEN FALSE
  ELSE LET sortedA == SortById(a)
           sortedB == SortById(b)
       IN  \A i \in DOMAIN sortedA : areAnnotationsDeepEqual(sortedA[i], sortedB[i])

(***************************************************************************)
(* AnnotationHistoryService.  The engine's stacks and current state are    *)
(* gathered in a record so that the orchestrator's handlers can use the    *)
(* same operations.  A HistoryState's timestamp is never read and is left  *)
(* out.                                                                    *)
(***************************************************************************)
Engine == history

NoValue == [null |-> TRUE, value |-> <<>>]
NoOutcome == [setItem |-> "none", promise |-> "none", unhandled |-> FALSE]

\* the locators of the model: "Aa", "BB" and "C"
Urls == { <<65, 97>>, <<66, 66>>, <<67>> }
Returned(list) == [null |-> FALSE, value |-> list]


\* a push that evicts with pop() instead of shift()
PushLimitedPop(stack, entry) ==
  LET pushed == Append(stack, entry)
  IN  IF Len(pushed) > maxHistorySize THEN SubSeq(pushed, 1, Len(pushed) - 1) ELSE pushed

\* stack.push(entry); if (stack.length > maxHistorySize) stack.shift()
PushLimited(stack, entry) ==
  LET pushed == Append(stack, entry)
  IN  IF Len(pushed) > maxHistorySize THEN Tail(pushed) ELSE pushed

initialize(annotations) ==
  [undoStack |-> <<>>, redoStack |-> <<>>, currentState |-> annotations]

\* a saveState that keeps the redo stack
saveStateKeepsRedo(h, annotations, action) ==
  IF areAnnotationsEqual(Deref(h.currentState, heap), Deref(annotations, heap))
  THEN h
  ELSE [ undoStack    |-> PushLimited(h.undoStack,
                            [annotations |-> h.currentState, action |-> action]),
         redoStack    |-> h.redoStack,
         currentState |-> annotations ]

\* a saveState that records the new list where it should record the current one
saveStatePushesNew(h, annotations, action) ==
  IF areAnnotationsEqual(Deref(h.currentState, heap), Deref(annotations, heap))
  THEN h
  ELSE [ undoStack    |-> PushLimited(h.undoStack,
                            [annotations |-> annotations, action |-> action]),
         redoStack    |-> <<>>,
         currentState |-> annotations ]

\* saveState(annotations, action, false)
saveState(h, annotations, action) ==
  IF areAnnotationsEqual(Deref(h.currentState, heap), Deref(annotations, heap))
  THEN h
  ELSE [ undoStack    |-> PushLimited(h.undoStack,
                            [annotations |-> h.currentState, action |-> action]),
         redoStack    |-> <<>>,
         currentState |-> annotations ]

\* an undo() without the test for an empty stack: pop() yields undefined
undoUnguarded(h) ==
  IF Len(h.undoStack) = 0
  THEN [ engine |-> [ undoStack    |-> <<>>,
                      redoStack    |-> PushLimited(h.redoStack,
                                         [ annotations |-> h.currentState,
                                           action |-> createBatchAction(<<"Redo:">>, <<>>) ]),
                      currentState |-> <<>> ],
         ret    |-> Returned(<<>>) ]
  ELSE LET previousState == h.undoStack[Len(h.undoStack)]
           redoState ==
             [ annotations |-> h.currentState,
               action |-> [ type          |-> "batch",
                            description   |-> <<"Redo:">> \o previousState.action.description,
                            annotationIds |-> previousState.action.annotationIds ] ]
       IN  [ engine |-> [ undoStack    |-> SubSeq(h.undoStack, 1, Len(h.undoStack) - 1),
                          redoStack    |-> PushLimited(h.redoStack, redoState),
                          currentState |-> previousState.annotations ],
             ret    |-> Returned(previousState.annotations) ]

\* an undo() that reads the top of the undo stack and leaves it there
undoPeeks(h) ==
  IF Len(h.undoStack) = 0
  THEN [engine |-> h, ret |-> NoValue]
  ELSE LET previousState == h.undoStack[Len(h.undoStack)]
           redoState ==
             [ annotations |-> h.currentState,
               action |-> [ type          |-> "batch",
                            description   |-> <<"Redo:">> \o previousState.action.description,
                            annotationIds |-> previousState.action.annotationIds ] ]
       IN  [ engine |-> [ undoStack    |-> h.undoStack,
                          redoStack    |-> PushLimited(h.redoStack, redoState),
                          currentState |-> previousState.annotations ],
             ret    |-> Returned(previousState.annotations) ]

\* the engine after undo(), and what undo() returns
undo(h) ==
  IF Len(h.undoStack) = 0
  THEN [engine |-> h, ret |-> NoValue]
  ELSE LET previousState == h.undoStack[Len(h.undoStack)]
           redoState ==
             [ annotations |-> h.currentState,
               action |-> [ type          |-> "batch",
                            description   |-> <<"Redo:">> \o previousState.action.description,
                            annotationIds |-> previousState.action.annotationIds ] ]
       IN  [ engine |-> [ undoStack    |-> SubSeq(h.undoStack, 1, Len(h.undoStack) - 1),
                          redoStack    |-> PushLimited(h.redoStack, redoState),
                          currentState |-> previousState.annotations ],
             ret    |-> Returned(previousState.annotations) ]

\* a redo() that takes the oldest redo entry (shift()) instead of the newest
redoOldest(h) ==
  IF Len(h.redoStack) = 0
  THEN [engine |-> h, ret |-> NoValue]
  ELSE LET nextState == h.redoStack[1]
           undoState ==
             [ annotations |-> h.currentState,
               action |-> [ type          |-> "batch",
                            description   |-> <<"Undo:">> \o nextState.action.description,
                            annotationIds |-> nextState.action.annotationIds ] ]
       IN  [ engine |-> [ undoStack    |-> Append(h.undoStack, undoState),
                          redoStack    |-> Tail(h.redoStack),
                          currentState |-> nextState.annotations ],
             ret    |-> Returned(nextState.annotations) ]

\* the engine after redo(), and what redo() returns
redo(h) ==
  IF Len(h.redoStack) = 0
  THEN [engine |-> h, ret |-> NoValue]
  ELSE LET nextState == h.redoStack[Len(h.redoStack)]
           undoState ==
             [ annotations |-> h.currentState,
               action |-> [ type          |-> "batch",
                            description   |-> <<"Undo:">> \o nextState.action.description,
                            annotationIds |-> nextState.action.annotationIds ] ]
       IN  [ engine |-> [ undoStack    |-> Append(h.undoStack, undoState),
                          redoStack    |-> SubSeq(h.redoStack, 1, Len(h.redoStack) - 1),
                          currentState |-> nextState.annotations ],
             ret    |-> Returned(nextState.annotations) ]

canUndo == Len(undoStack) > 0
canRedo == Len(redoStack) > 0

\* clearTimeout(handle)
clearTimeout(pending, handle) == {tm \in pending : tm.id # handle}

\* the handle setTimeout returns: a new one, which no pending timer has and
\* which is not the handle just cleared
NewHandle(pending, cleared) ==
  CHOOSE i \in 1..(Cardinality(pending) + 2) :
    i # cleared /\ \A tm \in pending : tm.id # i

\* a debouncedSaveState that does not clear the pending timer
debouncedSaveStateNoClear(annotations, action) ==
  LET handle == NewHandle(timers, debounceTimer)
  IN  [ timers |-> timers \cup {[ id |-> handle, annotations |-> annotations,
                                  action |-> action ]},
        debounceTimer |-> handle ]

\* the pending timers and this.debounceTimer after
\* debouncedSaveState(annotations, action)
debouncedSaveState(annotations, action) ==
  LET kept   == IF debounceTimer # 0 THEN clearTimeout(timers, debounceTimer) ELSE timers
      handle == NewHandle(kept, debounceTimer)
  IN  [ timers |-> kept \cup {[ id |-> handle, annotations |-> annotations,
                                action |-> action ]},
        debounceTimer |-> handle ]

SetEngine(h) == history' = h

(***************************************************************************)
(* The public operations of the engine, called by any caller.              *)
(***************************************************************************)
Initialize(annotations) ==
  /\ SetEngine(initialize(annotations))
  /\ call' = "initialize"
  /\ UNCHANGED uiVars
  /\ ret' = NoValue
  /\ UNCHANGED <<heap, debounceTimer, timers, gatewayVars, appVars>>

SaveState(annotations, action) ==
  /\ SetEngine(saveState(Engine, annotations, action))
  /\ call' = "saveState"
  /\ UNCHANGED uiVars
  /\ ret' = NoValue
  /\ UNCHANGED <<heap, debounceTimer, timers, gatewayVars, appVars>>

SaveStateDebounced(annotations, action) ==
  /\ timers' = debouncedSaveState(annotations, action).timers
  /\ debounceTimer' = debouncedSaveState(annotations, action).debounceTimer
  /\ call' = "saveStateDebounced"
  /\ UNCHANGED uiVars
  /\ ret' = NoValue
  /\ UNCHANGED <<heap, history, gatewayVars, appVars>>

\* the timeout elapses: the callback of debouncedSaveState runs
TimerFires(tm) ==
  /\ tm \in timers
  /\ SetEngine(saveState(Engine, tm.annotations, tm.action))
  /\ debounceTimer' = 0
  /\ timers' = timers \ {tm}
  /\ call' = "timer"
  /\ UNCHANGED uiVars
  /\ ret' = NoValue
  /\ UNCHANGED <<heap, gatewayVars, appVars>>

Undo ==
  /\ canUndo => Len(undoStack[Len(undoStack)].action.description) < MaxDescription
  /\ SetEngine(undo(Engine).engine)
  /\ call' = "undo"
  /\ UNCHANGED uiVars
  /\ ret' = undo(Engine).ret
  /\ UNCHANGED <<heap, debounceTimer, timers, gatewayVars, appVars>>

Redo ==
  /\ canRedo => Len(redoStack[Len(redoStack)].action.description) < MaxDescription
  /\ SetEngine(redo(Engine).engine)
  /\ call' = "redo"
  /\ UNCHANGED uiVars
  /\ ret' = redo(Engine).ret
  /\ UNCHANGED <<heap, debounceTimer, timers, gatewayVars, appVars>>

ClearHistory ==
  /\ history' = [history EXCEPT !.undoStack = <<>>, !.redoStack = <<>>]
  /\ timers' = IF debounceTimer # 0 THEN clearTimeout(timers, debounceTimer) ELSE timers
  /\ debounceTimer' = 0
  /\ call' = "clearHistory"
  /\ UNCHANGED uiVars
  /\ ret' = NoValue
  /\ UNCHANGED <<heap, gatewayVars, appVars>>

Destroy ==
  /\ history' = [undoStack |-> <<>>, redoStack |-> <<>>, currentState |-> <<>>]
  /\ timers' = IF debounceTimer # 0 THEN clearTimeout(timers, debounceTimer) ELSE timers
  /\ debounceTimer' = 0
  /\ call' = "destroy"
  /\ UNCHANGED uiVars
  /\ ret' = NoValue
  /\ UNCHANGED <<heap, gatewayVars, appVars>>

(***************************************************************************)
(* ShapeDrawer and the AnnotationLayer that hosts it.  A number of the     *)
(* drafting space is held as the integer Units times its value, so that a  *)
(* division by the scale, and a second one, are exact.  The container's    *)
(* bounding rectangle has its corner at the origin of the client area.     *)
(* Of a shape record the id and the timestamps, which no handler reads,    *)
(* are left out.  The layer is not rotated.                                *)
(***************************************************************************)
\* the scales of the view
Scales == {1, 2}

\* the least number that every scale divides twice
Units ==
  CHOOSE u \in 1..16 :
    /\ \A s \in Scales : u % (s * s) = 0
    /\ \A v \in 1..16 : (\A s \in Scales : v % (s * s) = 0) => u <= v

\* const minSize = 10 / scale: the 10
MinimumPixels == 10

\* the tool types, by their rank under localeCompare
Arrow == Str(2)
Circle == Str(3)
Highlight == Str(4)
Rectangle == Str(5)

Tool(type) ==
  [t |-> "object", type |-> type, color |-> Str(1), strokeWidth |-> Num(2),
   opacity |-> Num(1)]

Tools == {Undefined} \cup {Tool(type) : type \in {Arrow, Circle, Highlight, Rectangle}}

\* ['rectangle', 'circle', 'arrow'].includes(selectedTool.type), after
\* `selectedTool &&`
isShapeTool(selectedTool) ==
  Truthy(selectedTool) /\ selectedTool.type \in {Rectangle, Circle, Arrow}

\* the client positions of the pointer
ClientPoints ==
  { [x |-> 100, y |-> 100], [x |-> 102, y |-> 102], [x |-> 110, y |-> 110],
    [x |-> 200, y |-> 150], [x |-> 200, y |-> 200] }

\* { x: (event.clientX - rect.left) / scale, y: (event.clientY - rect.top) / scale }
PointAt(event, scale) ==
  [x |-> (event.x * Units) \div scale, y |-> (event.y * Units) \div scale]

Min(a, b) == IF a <= b THEN a ELSE b
Abs(a) == IF a < 0 THEN -a ELSE a

\* the state ShapeDrawer starts in and returns to
NotDrawing ==
  [isDrawing |-> FALSE, startPoint |-> Undefined, currentPoint |-> Undefined,
   previewShape |-> Undefined]

\* what the last event found
Found(state) ==
  [wasDrawing |-> state.isDrawing, hadPreview |-> Truthy(state.previewShape)]

\* createShapeAnnotation(tool, pageNumber, startPoint, endPoint) for the
\* tools of its switch
createShapeAnnotation(tool, startPoint, endPoint) ==
  LET base == [ t          |-> "object",
                type       |-> tool.type,
                pageNumber |-> Num(1),
                style      |-> [t |-> "object", color |-> tool.color,
                                strokeWidth |-> tool.strokeWidth,
                                opacity |-> tool.opacity] ]
  IN  IF tool.type \in {Rectangle, Circle}
      THEN base @@ [coordinates |->
             [ t      |-> "object",
               x      |-> Num(Min(startPoint.x, endPoint.x)),
               y      |-> Num(Min(startPoint.y, endPoint.y)),
               width  |-> Num(Abs(endPoint.x - startPoint.x)),
               height |-> Num(Abs(endPoint.y - startPoint.y)),
               points |-> Undefined ]]
      ELSE base @@ [coordinates |->
             [ t      |-> "object",
               x      |-> Num(Min(startPoint.x, endPoint.x)),
               y      |-> Num(Min(startPoint.y, endPoint.y)),
               width  |-> Undefined,
               height |-> Undefined,
               points |-> ArrayOf(<<startPoint.x, startPoint.y,
                                    endPoint.x, endPoint.y>>) ]]

\* what a handler leaves: the state and the records passed to onAnnotationAdd
Handled(state, records) == [state |-> state, emitted |-> records]

\* handleMouseDown
handleMouseDown(state, props, event) ==
  IF props.disabled \/ ~Truthy(props.selectedTool) \/ ~isShapeTool(props.selectedTool)
  THEN Handled(state, <<>>)
  ELSE LET startPoint == PointAt(event, props.scale)
       IN  Handled([ isDrawing    |-> TRUE,
                     startPoint   |-> startPoint,
                     currentPoint |-> startPoint,
                     previewShape |-> Undefined ], <<>>)

\* handleMouseMove; createShapeAnnotation throws for a tool that is not a
\* shape tool, and the state is then not set
handleMouseMove(state, props, event) ==
  IF ~state.isDrawing \/ state.startPoint = Undefined \/ ~Truthy(props.selectedTool)
  THEN Handled(state, <<>>)
  ELSE IF ~isShapeTool(props.selectedTool)
  THEN Handled(state, <<>>)
  ELSE LET currentPoint == PointAt(event, props.scale)
           previewShape == createShapeAnnotation(props.selectedTool,
                                                 state.startPoint, currentPoint)
       IN  Handled([state EXCEPT !.currentPoint = currentPoint,
                                 !.previewShape = previewShape], <<>>)

\* the test of handleMouseUp; the square root is taken exactly for a square
\* and is monotonic, so the distances are compared by their squares
hasMinimumSize(shape, scale) ==
  LET minSize == (MinimumPixels * Units) \div scale
      c       == shape.coordinates
  IN  IF Truthy(c.width) /\ Truthy(c.height)
      THEN c.width.v >= minSize /\ c.height.v >= minSize
      ELSE IF Truthy(c.points)
      THEN LET points == c.points.v
           IN  /\ Len(points) >= 4
               /\ (points[3] - points[1]) * (points[3] - points[1])
                    + (points[4] - points[2]) * (points[4] - points[2])
                    >= minSize * minSize
      ELSE FALSE

\* a handleMouseUp that does not look at the size
handleMouseUpAnySize(state, props) ==
  IF ~state.isDrawing \/ ~Truthy(state.previewShape)
  THEN Handled(NotDrawing, <<>>)
  ELSE Handled(NotDrawing, <<state.previewShape>>)

\* handleMouseUp
handleMouseUp(state, props) ==
  IF ~state.isDrawing \/ ~Truthy(state.previewShape)
  THEN Handled(NotDrawing, <<>>)
  ELSE Handled(NotDrawing,
               IF hasMinimumSize(state.previewShape, props.scale)
               THEN <<state.previewShape>>
               ELSE <<>>)

\* a handleMouseLeave that keeps the preview
handleMouseLeaveKeepsPreview(state) ==
  IF state.isDrawing
  THEN Handled([NotDrawing EXCEPT !.previewShape = state.previewShape], <<>>)
  ELSE Handled(state, <<>>)

\* handleMouseLeave
handleMouseLeave(state) ==
  IF state.isDrawing THEN Handled(NotDrawing, <<>>) ELSE Handled(state, <<>>)

\* the keydown listener, which the effect attaches while isDrawing
handleKeyDown(state, key) ==
  IF state.isDrawing /\ key = "Escape"
  THEN Handled(NotDrawing, <<>>)
  ELSE Handled(state, <<>>)

\* the page the layer lies on
pageDimensions == [width |-> 600 * Units, height |-> 800 * Units]

\* a % n of JavaScript: the remainder has the sign of a
Remainder(a, n) == IF a >= 0 THEN a % n ELSE -((-a) % n)

\* a / b of JavaScript for b # 0, where b divides a
Quotient(a, b) ==
  IF b > 0
  THEN (IF a >= 0 THEN a \div b ELSE -((-a) \div b))
  ELSE (IF a >= 0 THEN -(a \div (-b)) ELSE (-a) \div (-b))

\* createViewportTransform(scale, rotation, offsetX, offsetY)
createViewportTransform(scale, rotation, offsetX, offsetY) ==
  LET normalizedRotation == Remainder(rotation, 360)
  IN  [ scale    |-> scale,
        rotation |-> IF normalizedRotation < 0 THEN normalizedRotation + 360
                     ELSE normalizedRotation,
        offsetX  |-> offsetX,
        offsetY  |-> offsetY ]

\* Math.cos and Math.sin of (rotation * Math.PI) / 180 for the right angles,
\* where they are whole numbers (the floating-point values differ from them
\* by less than 1e-15)
Cos(rotation) ==
  CASE Remainder(rotation + 360, 360) = 0   -> 1
    [] Remainder(rotation + 360, 360) = 90  -> 0
    [] Remainder(rotation + 360, 360) = 180 -> -1
    [] Remainder(rotation + 360, 360) = 270 -> 0

Sin(rotation) ==
  CASE Remainder(rotation + 360, 360) = 0   -> 0
    [] Remainder(rotation + 360, 360) = 90  -> 1
    [] Remainder(rotation + 360, 360) = 180 -> 0
    [] Remainder(rotation + 360, 360) = 270 -> -1

\* the point (x, y) rotated about the page's centre
Rotated(x, y, dimensions, rotation) ==
  LET centerX == dimensions.width \div 2
      centerY == dimensions.height \div 2
      translatedX == x - centerX
      translatedY == y - centerY
  IN  IF rotation # 0
      THEN [ x |-> translatedX * Cos(rotation) - translatedY * Sin(rotation) + centerX,
             y |-> translatedX * Sin(rotation) + translatedY * Cos(rotation) + centerY ]
      ELSE [x |-> x, y |-> y]

\* x || 0
OrZero(x) == IF Truthy(x) THEN x.v ELSE 0

\* pdfToCanvas(pdfCoords, pageDimensions, viewport)
pdfToCanvas(pdfCoords, dimensions, viewport) ==
  LET point == Rotated(pdfCoords.x.v,
                       dimensions.height - pdfCoords.y.v - OrZero(pdfCoords.height),
                       dimensions, viewport.rotation)
  IN  [ t      |-> "object",
        x      |-> Num(point.x * viewport.scale + viewport.offsetX),
        y      |-> Num(point.y * viewport.scale + viewport.offsetY),
        width  |-> IF Truthy(pdfCoords.width)
                   THEN Num(pdfCoords.width.v * viewport.scale) ELSE Undefined,
        height |-> IF Truthy(pdfCoords.height)
                   THEN Num(pdfCoords.height.v * viewport.scale) ELSE Undefined ]

\* x ? x / scale : undefined
Scaled(x, scale) == IF Truthy(x) THEN Num(Quotient(x.v, scale)) ELSE Undefined

\* canvasToPdf(canvasCoords, pageDimensions, viewport) for a scale other than 0
canvasToPdf(canvasCoords, dimensions, viewport) ==
  LET point == Rotated(Quotient(canvasCoords.x.v - viewport.offsetX, viewport.scale),
                       Quotient(canvasCoords.y.v - viewport.offsetY, viewport.scale),
                       dimensions, -viewport.rotation)
  IN  [ t      |-> "object",
        x      |-> Num(point.x),
        y      |-> Num(dimensions.height - point.y
                         - (IF Truthy(canvasCoords.height)
                            THEN Quotient(canvasCoords.height.v, viewport.scale)
                            ELSE 0)),
        width  |-> Scaled(canvasCoords.width, viewport.scale),
        height |-> Scaled(canvasCoords.height, viewport.scale) ]

\* Infinity and -Infinity
PositiveInfinity == [t |-> "Infinity", v |-> 1]
NegativeInfinity == [t |-> "Infinity", v |-> -1]

\* Math.min(a, b) and Math.max(a, b), b being finite
MathMin(a, b) ==
  IF a.t = "Infinity" THEN (IF a.v > 0 THEN b ELSE a)
  ELSE IF b.v < a.v THEN b ELSE a

MathMax(a, b) ==
  IF a.t = "Infinity" THEN (IF a.v < 0 THEN b ELSE a)
  ELSE IF b.v > a.v THEN b ELSE a

\* the forEach of getBoundingBox
RECURSIVE Extended(_, _)
Extended(bounds, coordinates) ==
  IF coordinates = <<>> THEN bounds
  ELSE LET coord == Head(coordinates)
       IN  Extended(
             [ minX |-> MathMin(bounds.minX, Num(coord.x)),
               minY |-> MathMin(bounds.minY, Num(coord.y)),
               maxX |-> MathMax(bounds.maxX,
                                Num(coord.x + (IF coord.width # 0 THEN coord.width ELSE 0))),
               maxY |-> MathMax(bounds.maxY,
                                Num(coord.y + (IF coord.height # 0 THEN coord.height ELSE 0))) ],
             Tail(coordinates))

\* getBoundingBox(coordinates)
getBoundingBox(coordinates) ==
  IF Len(coordinates) = 0
  THEN [x |-> Num(0), y |-> Num(0), width |-> Num(0), height |-> Num(0)]
  ELSE LET bounds == Extended([ minX |-> PositiveInfinity, minY |-> PositiveInfinity,
                                maxX |-> NegativeInfinity, maxY |-> NegativeInfinity ],
                              coordinates)
       IN  [ x      |-> bounds.minX,
             y      |-> bounds.minY,
             width  |-> Num(bounds.maxX.v - bounds.minX.v),
             height |-> Num(bounds.maxY.v - bounds.minY.v) ]

\* AnnotationLayer.handleCanvasAnnotationAdd: the record passed to
\* onAnnotationAdd
handleCanvasAnnotationAdd(annotation, scale) ==
  [annotation EXCEPT !.coordinates =
     canvasToPdf(annotation.coordinates, pageDimensions,
                 createViewportTransform(scale, 0, 0, 0))]

(***************************************************************************)
(* TextSelectionService and the TextHighlighter that listens to it.  A     *)
(* text is the sequence of its character codes.  The native selection      *)
(* (window.getSelection()) has at most one range; of the range the model   *)
(* keeps what the service reads: whether it is collapsed, its text, the    *)
(* chain of elements from its common ancestor up to the root, and its      *)
(* client rectangles.  Of a TextSelection the id, the offsets and the      *)
(* container reference, which no handler reads, are left out; so are the   *)
(* id and the timestamps of the record a commit creates.  A function is    *)
(* known by its identity, a number: bind returns a function that is none   *)
(* of those the document holds.                                            *)
(***************************************************************************)
Null == [t |-> "null", v |-> 0]
NaN == [t |-> "NaN", v |-> 0]

Strikethrough == Str(6)
Underline == Str(7)

\* the tools TextHighlighter is rendered with
TextTools ==
  {Undefined} \cup
  {Tool(type) : type \in {Highlight, Rectangle, Strikethrough, Underline}}

\* ["highlight", "underline", "strikethrough"].includes(toolType)
isTextAnnotationTool(toolType) == toolType \in {Highlight, Underline, Strikethrough}

\* String.prototype.trim for texts of spaces (32) and letters
RECURSIVE TrimStart(_)
TrimStart(text) ==
  IF text # <<>> /\ Head(text) = 32 THEN TrimStart(Tail(text)) ELSE text

RECURSIVE TrimEnd(_)
TrimEnd(text) ==
  IF text # <<>> /\ text[Len(text)] = 32
  THEN TrimEnd(SubSeq(text, 1, Len(text) - 1))
  ELSE text

Trim(text) == TrimEnd(TrimStart(text))

\* parseInt(chars, 10) of a text without sign or leading white space: the
\* value of its leading decimal digits, NaN when it has none
RECURSIVE DigitsValue(_, _)
DigitsValue(chars, value) ==
  IF chars # <<>> /\ Head(chars) \in 48..57
  THEN DigitsValue(Tail(chars), 10 * value + (Head(chars) - 48))
  ELSE value

parseInt(chars) ==
  IF chars # <<>> /\ Head(chars) \in 48..57 THEN Num(DigitsValue(chars, 0)) ELSE NaN

\* an attribute's value as getAttribute returns it: null when absent
Attr(chars) == [t |-> "string", chars |-> chars]

\* ToBoolean of an attribute's value
Present(attr) == attr.t = "string" /\ attr.chars # <<>>

\* an element: the tokens of its className, its data-page-number attribute
Element(className, pageNumberAttr) ==
  [className |-> className, pageNumberAttr |-> pageNumberAttr]

\* the digits that /page-(\d+)/ captures in a class token
ClassDigits(token) ==
  CASE token = "page-1" -> <<49>>
    [] token = "page-2" -> <<50>>
    [] OTHER            -> <<>>

\* className.match(/page-(\d+)/): the capture of the first match, <<>> for null
RECURSIVE classMatch(_)
classMatch(className) ==
  IF className = <<>> THEN <<>>
  ELSE IF ClassDigits(Head(className)) # <<>> THEN ClassDigits(Head(className))
  ELSE classMatch(Tail(className))

\* whether findPDFPageContainer stops at the element
IsPageContainer(element) ==
  \/ \E i \in DOMAIN element.className :
       element.className[i] \in {"react-pdf__Page", "pdf-page"}
  \/ element.pageNumberAttr.t = "string"

\* findPDFPageContainer(node): the position in the chain of the first element
\* it stops at, 0 for null
findPDFPageContainer(ancestors) ==
  IF \E i \in DOMAIN ancestors : IsPageContainer(ancestors[i])
  THEN CHOOSE i \in DOMAIN ancestors :
         /\ IsPageContainer(ancestors[i])
         /\ \A j \in 1..(i - 1) : ~IsPageContainer(ancestors[j])
  ELSE 0

\* extractPageNumber(container), the container being ancestors[at]
extractPageNumber(ancestors, at) ==
  LET container == ancestors[at]
      parents == {j \in DOMAIN ancestors : j > at /\ Present(ancestors[j].pageNumberAttr)}
  IN  IF Present(container.pageNumberAttr)
      THEN parseInt(container.pageNumberAttr.chars)
      ELSE IF classMatch(container.className) # <<>>
      THEN parseInt(classMatch(container.className))
      ELSE IF parents # {}
      THEN parseInt(ancestors[CHOOSE j \in parents : \A k \in parents : j <= k]
                      .pageNumberAttr.chars)
      ELSE Null

\* container.getBoundingClientRect()
containerRect == [left |-> 50, top |-> 100]

\* getBoundingBoxesFromRange(range, container)
RECURSIVE getBoundingBoxesFromRange(_)
getBoundingBoxesFromRange(rects) ==
  IF rects = <<>> THEN <<>>
  ELSE LET rect == Head(rects)
           boundingBox == [ x      |-> rect.left - containerRect.left,
                            y      |-> rect.top - containerRect.top,
                            width  |-> rect.width,
                            height |-> rect.height ]
       IN  (IF boundingBox.width > 1 /\ boundingBox.height > 1
            THEN <<boundingBox>> ELSE <<>>)
           \o getBoundingBoxesFromRange(Tail(rects))

\* what an operation of the service leaves: the service and the calls it made
\* to its listeners, in order
Serviced(service, calls) == [service |-> service, notified |-> calls]

\* a function value
Callback == [t |-> "function", v |-> 0]

\* notifySelectionChange(selection)
notifySelectionChange(service, selection) ==
  [ i \in DOMAIN service.selectionChangeListeners |->
      [listener |-> service.selectionChangeListeners[i], selection |-> selection] ]
  \o (IF Truthy(service.options.onSelectionChange)
      THEN <<[listener |-> "options.onSelectionChange", selection |-> selection]>>
      ELSE <<>>)

\* clearSelection
clearSelection(service) ==
  IF service.currentSelection # Null
  THEN Serviced([service EXCEPT !.currentSelection = Null],
                notifySelectionChange(service, Null))
  ELSE Serviced(service, <<>>)

\* this.options.minSelectionLength || 1
MinimumLength(service) ==
  IF Truthy(service.options.minSelectionLength)
  THEN service.options.minSelectionLength.v
  ELSE 1

\* processSelection(selection, range)
processSelection(service, selection) ==
  LET selectedText == Trim(selection.text)
      pageContainer == findPDFPageContainer(selection.ancestors)
      pageNumber == extractPageNumber(selection.ancestors, pageContainer)
      boundingBoxes == getBoundingBoxesFromRange(selection.rects)
      textSelection == [ t             |-> "object",
                         text          |-> selectedText,
                         pageNumber    |-> pageNumber,
                         boundingBoxes |-> boundingBoxes ]
  IN  IF Len(selectedText) < MinimumLength(service) THEN clearSelection(service)
      ELSE IF pageContainer = 0 THEN clearSelection(service)
      ELSE IF pageNumber = Null THEN clearSelection(service)
      ELSE IF Len(boundingBoxes) = 0 THEN clearSelection(service)
      ELSE Serviced([service EXCEPT !.currentSelection = textSelection],
                    notifySelectionChange(service, textSelection))

\* TextSelectionService.handleSelectionChange, selection being
\* window.getSelection()
serviceHandleSelectionChange(service, selection) ==
  IF selection.rangeCount = 0 THEN clearSelection(service)
  ELSE IF selection.collapsed THEN clearSelection(service)
  ELSE processSelection(service, selection)

\* the callback handleMouseUp and handleKeyUp schedule, with finalizeSelection
finalizeSelection(service, selection) ==
  IF ~selection.collapsed /\ service.currentSelection # Null
  THEN Serviced(service, notifySelectionChange(service, service.currentSelection))
  ELSE Serviced(service, <<>>)

\* what a handler of TextHighlighter leaves: its state, the records passed to
\* onAnnotationAdd, and whether it called removeAllRanges
Highlighted(state, records, removed) ==
  [state |-> state, added |-> records, removed |-> removed]

NoSelection == [currentSelection |-> Null, pendingHighlight |-> Null]

\* TextHighlighter.handleSelectionChange
highlighterHandleSelectionChange(state, props, selection) ==
  IF props.disabled THEN state
  ELSE [ currentSelection |-> selection,
         pendingHighlight |->
           IF /\ selection # Null
              /\ Truthy(props.selectedTool)
              /\ isTextAnnotationTool(props.selectedTool.type)
           THEN [ t         |-> "object",
                  selection |-> selection,
                  style     |-> [ color   |-> props.selectedTool.color,
                                  opacity |-> props.selectedTool.opacity,
                                  type    |-> props.selectedTool.type ] ]
           ELSE Null ]

\* Math.min(...) and Math.max(...) over the boxes
MinOf(S) == CHOOSE x \in S : \A y \in S : x <= y
MaxOf(S) == CHOOSE x \in S : \A y \in S : x >= y

\* a createAnnotationFromSelection that takes the first box for the whole
createAnnotationFromFirstBox(selection, tool) ==
  LET boundingBoxes == selection.boundingBoxes
  IN  IF ~isTextAnnotationTool(tool.type) THEN Null
      ELSE IF Len(boundingBoxes) = 0 THEN Null
      ELSE [ t           |-> "object",
             type        |-> tool.type,
             pageNumber  |-> selection.pageNumber,
             coordinates |-> [ t      |-> "object",
                               x      |-> Num(boundingBoxes[1].x),
                               y      |-> Num(boundingBoxes[1].y),
                               width  |-> Num(boundingBoxes[1].width),
                               height |-> Num(boundingBoxes[1].height) ],
             style       |-> [ t |-> "object", color |-> tool.color,
                               strokeWidth |-> tool.strokeWidth,
                               opacity |-> tool.opacity ],
             content     |-> selection.text ]

\* createAnnotationFromSelection(selection, tool)
createAnnotationFromSelection(selection, tool) ==
  LET boundingBoxes == selection.boundingBoxes
      boxes == DOMAIN boundingBoxes
      minX == MinOf({boundingBoxes[i].x : i \in boxes})
      minY == MinOf({boundingBoxes[i].y : i \in boxes})
      maxX == MaxOf({boundingBoxes[i].x + boundingBoxes[i].width : i \in boxes})
      maxY == MaxOf({boundingBoxes[i].y + boundingBoxes[i].height : i \in boxes})
  IN  IF ~isTextAnnotationTool(tool.type) THEN Null
      ELSE IF Len(boundingBoxes) = 0 THEN Null
      ELSE [ t           |-> "object",
             type        |-> tool.type,
             pageNumber  |-> selection.pageNumber,
             coordinates |-> [ t      |-> "object",
                               x      |-> Num(minX),
                               y      |-> Num(minY),
                               width  |-> Num(maxX - minX),
                               height |-> Num(maxY - minY) ],
             style       |-> [ t |-> "object", color |-> tool.color,
                               strokeWidth |-> tool.strokeWidth,
                               opacity |-> tool.opacity ],
             content     |-> selection.text ]

\* the commit of handleClick and of the Enter key
Commit(state, props) ==
  LET annotation == createAnnotationFromSelection(state.currentSelection,
                                                  props.selectedTool)
  IN  IF annotation # Null
      THEN Highlighted(NoSelection, <<annotation>>, TRUE)
      ELSE Highlighted(state, <<>>, FALSE)

\* handleClick; inside: the document has the page's container and it contains
\* the event's target
handleClick(state, props, inside) ==
  IF props.disabled \/ state.currentSelection = Null \/ ~Truthy(props.selectedTool)
  THEN Highlighted(state, <<>>, FALSE)
  ELSE IF ~isTextAnnotationTool(props.selectedTool.type)
  THEN Highlighted(state, <<>>, FALSE)
  ELSE IF ~inside THEN Highlighted(state, <<>>, FALSE)
  ELSE Commit(state, props)

\* x === y for a page number
StrictEquals(x, y) == x # NaN /\ x = y

\* handleDoubleClick for any text tool
handleDoubleClickAnyTextTool(state, props, selection, textSelection) ==
  IF props.disabled \/ ~Truthy(props.selectedTool)
  THEN Highlighted(state, <<>>, FALSE)
  ELSE IF selection.collapsed THEN Highlighted(state, <<>>, FALSE)
  ELSE IF /\ textSelection # Null
          /\ StrictEquals(textSelection.pageNumber, Num(props.pageNumber))
          /\ createAnnotationFromSelection(textSelection, props.selectedTool) # Null
  THEN Highlighted(state,
                   <<createAnnotationFromSelection(textSelection, props.selectedTool)>>,
                   TRUE)
  ELSE Highlighted(state, <<>>, FALSE)

\* handleDoubleClick; selection: window.getSelection(), textSelection:
\* textSelectionService.getCurrentSelection()
handleDoubleClick(state, props, selection, textSelection) ==
  IF props.disabled \/ ~Truthy(props.selectedTool)
  THEN Highlighted(state, <<>>, FALSE)
  ELSE IF props.selectedTool.type # Highlight THEN Highlighted(state, <<>>, FALSE)
  ELSE IF selection.collapsed THEN Highlighted(state, <<>>, FALSE)
  ELSE IF /\ textSelection # Null
          /\ StrictEquals(textSelection.pageNumber, Num(props.pageNumber))
          /\ createAnnotationFromSelection(textSelection, props.selectedTool) # Null
  THEN Highlighted(state,
                   <<createAnnotationFromSelection(textSelection, props.selectedTool)>>,
                   TRUE)
  ELSE Highlighted(state, <<>>, FALSE)

\* TextHighlighter's handleKeyDown
highlighterHandleKeyDown(state, props, key) ==
  LET entered ==
        IF /\ key = "Enter"
           /\ state.currentSelection # Null
           /\ Truthy(props.selectedTool)
           /\ isTextAnnotationTool(props.selectedTool.type)
        THEN Commit(state, props)
        ELSE Highlighted(state, <<>>, FALSE)
  IN  IF props.disabled THEN Highlighted(state, <<>>, FALSE)
      ELSE IF key = "Escape" THEN Highlighted(NoSelection, <<>>, TRUE)
      ELSE entered

\* the native selections of the model
NoRanges ==
  [rangeCount |-> 0, collapsed |-> TRUE, text |-> <<>>, ancestors |-> <<>>,
   rects |-> <<>>]

Range1(collapsed, text, ancestors, rects) ==
  [rangeCount |-> 1, collapsed |-> collapsed, text |-> text,
   ancestors |-> ancestors, rects |-> rects]

Rect(left, top, width, height) ==
  [left |-> left, top |-> top, width |-> width, height |-> height]

TwoLines == <<Rect(100, 200, 150, 20), Rect(100, 220, 100, 20)>>

WindowSelections ==
  { NoRanges,
    \* a caret in page 1
    Range1(TRUE, <<>>, <<Element(<<"react-pdf__Page">>, Attr(<<49>>))>>, <<>>),
    \* "ab" over two lines of page 1
    Range1(FALSE, <<97, 98>>, <<Element(<<"react-pdf__Page">>, Attr(<<49>>))>>,
           TwoLines),
    \* " a " in a page numbered by its class
    Range1(FALSE, <<32, 97, 32>>,
           <<Element(<<"textLayer">>, Null), Element(<<"pdf-page", "page-2">>, Null)>>,
           <<Rect(100, 200, 150, 20)>>),
    \* "ab" in a page numbered by an ancestor's attribute
    Range1(FALSE, <<97, 98>>,
           <<Element(<<"react-pdf__Page">>, Null), Element(<<>>, Attr(<<50>>))>>,
           <<Rect(60, 110, 30, 20)>>),
    \* white space in page 1
    Range1(FALSE, <<32, 32>>, <<Element(<<"react-pdf__Page">>, Attr(<<49>>))>>,
           <<Rect(100, 200, 150, 20)>>),
    \* "ab" outside every page
    Range1(FALSE, <<97, 98>>, <<Element(<<"sidebar">>, Null)>>,
           <<Rect(100, 200, 150, 20)>>),
    \* "ab" in a page without a number
    Range1(FALSE, <<97, 98>>, <<Element(<<>>, Attr(<<>>))>>,
           <<Rect(100, 200, 150, 20)>>),
    \* "ab" in page 1 with no rectangle above one pixel
    Range1(FALSE, <<97, 98>>, <<Element(<<"react-pdf__Page">>, Attr(<<49>>))>>,
           <<Rect(100, 200, 1, 20), Rect(100, 220, 0, 0)>>) }

\* the minSelectionLength a service is constructed with
MinSelectionLengths == {Num(0), Num(1), Num(2)}

\* the events the service listens to on the document
DocumentEvents == {"selectionchange", "mouseup", "keyup"}

\* handler.bind(this): a function that is none of those registered
Bind(registered) ==
  CHOOSE fn \in 1..(Cardinality(registered) + 1) :
    \A listener \in registered : listener.fn # fn

\* new TextSelectionService(options) with setupSelectionListeners, and the
\* effect of the TextHighlighter that mounts with it:
\* addSelectionChangeListener(handleSelectionChange)
NewService(minSelectionLength, onSelectionChange) ==
  [ currentSelection         |-> Null,
    options                  |-> [ minSelectionLength |-> minSelectionLength,
                                   onSelectionChange  |-> onSelectionChange ],
    selectionChangeListeners |-> <<"TextHighlighter">>,
    documentListeners        |-> {[type |-> type, fn |-> 1] : type \in DocumentEvents} ]

\* destroy(): document.removeEventListener(type, handler.bind(this)) for
\* each event, then the listeners and the current selection are dropped
destroy(service) ==
  [service EXCEPT !.documentListeners =
                     {listener \in @ : listener.fn # Bind(service.documentListeners)},
                  !.selectionChangeListeners = <<>>,
                  !.currentSelection = Null]

\* whether the document holds a handler of the service for the event
Listens(service, type) == \E listener \in service.documentListeners : listener.type = type

vars == <<heap, history, debounceTimer, timers, documents, storage, outcome, inFlight,
          demo, effects, uiVars, call, ret>>

InitHistory ==
  /\ heap = InitialHeap
  /\ history = [undoStack |-> <<>>, redoStack |-> <<>>, currentState |-> <<>>]
  /\ debounceTimer = 0
  /\ timers = {}
  /\ documents = <<>>
  /\ storage = <<>>
  /\ outcome = NoOutcome
  /\ inFlight = <<>>
  /\ demo = [annotations |-> <<>>, pdfUrl |-> <<65, 97>>]
  /\ effects = "none"
  /\ drawingState = NotDrawing
  /\ shapeProps = [disabled |-> FALSE, selectedTool |-> Tool(Rectangle), scale |-> 1]
  /\ emitted = <<>>
  /\ layerAdded = <<>>
  /\ recent = Found(NotDrawing)
  /\ selectionService = NewService(Num(1), Undefined)
  /\ windowSelection = NoRanges
  /\ highlighter = NoSelection
  /\ textProps = [disabled |-> FALSE, selectedTool |-> Tool(Highlight), pageNumber |-> 1]
  /\ notified = <<>>
  /\ added = <<>>
  /\ mapper = [viewport |-> createViewportTransform(1, 0, 0, 0), coordinates |-> <<>>]
  /\ call = "new"
  /\ ret = NoValue

NextHistory ==
  \/ \E annotations \in AnnotationLists : Initialize(annotations)
  \/ \E annotations \in AnnotationLists : SaveState(annotations, ActionFor(annotations))
  \/ Undo
  \/ Redo
  \/ ClearHistory
  \/ Destroy

SpecHistory == InitHistory /\ [][NextHistory]_vars

NextDebounce ==
  \/ \E annotations \in AnnotationLists : Initialize(annotations)
  \/ \E annotations \in AnnotationLists : SaveState(annotations, ActionFor(annotations))
  \/ \E annotations \in AnnotationLists :
       SaveStateDebounced(annotations, ActionFor(annotations))
  \/ \E tm \in timers : TimerFires(tm)
  \/ ClearHistory
  \/ Destroy

SpecDebounce == InitHistory /\ [][NextDebounce]_vars


(***************************************************************************)
(* AnnotationPersistenceService.  A locator (pdfUrl) is the sequence of    *)
(* its character codes.  A stored document's createdAt and updatedAt are   *)
(* never read and are left out.                                            *)
(***************************************************************************)
\* the loop of generateDocumentId; for locators this short the conversion to
\* a 32-bit integer (hash & hash) leaves the sum as it is
RECURSIVE HashOf(_)
HashOf(pdfUrl) ==
  IF pdfUrl = <<>> THEN 0
  ELSE LET hash == HashOf(SubSeq(pdfUrl, 1, Len(pdfUrl) - 1))
       IN  ((hash * 32) - hash) + pdfUrl[Len(pdfUrl)]

\* `doc_${Math.abs(hash).toString(36)}`, as the number the text encodes
generateDocumentId(pdfUrl) ==
  LET hash == HashOf(pdfUrl) IN IF hash < 0 THEN -hash ELSE hash

\* JSON.stringify followed by JSON.parse, of a value and of a record
JsonValue(x) == IF x.t = "date" THEN [t |-> "string", v |-> x.v] ELSE x

JsonRecord(annotation) ==
  [annotation EXCEPT !.createdAt = JsonValue(@), !.updatedAt = JsonValue(@)]

\* the item written by saveToStorage for the map docs, the objects being
\* those of the heap h
Serialized(h, docs) ==
  [id \in DOMAIN docs |->
     [ id          |-> docs[id].id,
       pdfUrl      |-> docs[id].pdfUrl,
       annotations |-> [i \in DOMAIN docs[id].annotations |->
                          JsonRecord(h[docs[id].annotations[i]])],
       version     |-> docs[id].version ]]

\* saveToStorage(): the item afterwards and whether the call threw;
\* writeFails: localStorage.setItem throws
saveToStorage(h, docs, item, writeFails) ==
  IF writeFails
  THEN [storage |-> item, setItem |-> "threw", threw |-> TRUE]
  ELSE [storage |-> Serialized(h, docs), setItem |-> "ok", threw |-> FALSE]

VersionOf(docs, documentId) ==
  IF documentId \in DOMAIN docs THEN docs[documentId].version ELSE 0

\* a saveAnnotations that swallows the error of saveToStorage
saveAnnotationsSwallows(h, docs, item, url, list, writeFails) ==
  LET documentId == generateDocumentId(url)
      document   == [ id          |-> documentId,
                      pdfUrl      |-> url,
                      annotations |-> list,
                      version     |-> VersionOf(docs, documentId) + 1 ]
      set        == [id \in DOMAIN docs \cup {documentId} |->
                       IF id = documentId THEN document ELSE docs[id]]
      written    == saveToStorage(h, set, item, writeFails)
  IN  [ documents |-> set,
        storage   |-> written.storage,
        setItem   |-> written.setItem,
        promise   |-> "fulfilled" ]

\* a saveAnnotations that keeps the document already stored under the id
saveAnnotationsFirstWins(h, docs, item, url, list, writeFails) ==
  LET documentId == generateDocumentId(url)
      document   == [ id          |-> documentId,
                      pdfUrl      |-> url,
                      annotations |-> list,
                      version     |-> VersionOf(docs, documentId) + 1 ]
      set        == [id \in DOMAIN docs \cup {documentId} |->
                       IF id \in DOMAIN docs THEN docs[id] ELSE document]
      written    == saveToStorage(h, set, item, writeFails)
  IN  [ documents |-> set,
        storage   |-> written.storage,
        setItem   |-> written.setItem,
        promise   |-> IF written.threw THEN "rejected" ELSE "fulfilled" ]

\* saveAnnotations(pdfUrl, annotations): the map, the item, what setItem did
\* and how the returned promise settles.  documents.set runs before the
\* write, so the map holds the new document whether or not the write throws.
saveAnnotations(h, docs, item, url, list, writeFails) ==
  LET documentId == generateDocumentId(url)
      document   == [ id          |-> documentId,
                      pdfUrl      |-> url,
                      annotations |-> list,
                      version     |-> VersionOf(docs, documentId) + 1 ]
      set        == [id \in DOMAIN docs \cup {documentId} |->
                       IF id = documentId THEN document ELSE docs[id]]
      written    == saveToStorage(h, set, item, writeFails)
  IN  [ documents |-> set,
        storage   |-> written.storage,
        setItem   |-> written.setItem,
        promise   |-> IF written.threw THEN "rejected" ELSE "fulfilled" ]

\* what loadAnnotations(pdfUrl) resolves to
loadAnnotations(docs, url) ==
  LET documentId == generateDocumentId(url)
  IN  IF documentId \notin DOMAIN docs
      THEN <<>>
      ELSE SelectSeq(docs[documentId].annotations,
                     LAMBDA o : validateAnnotation(heap[o]))

\* the lists a caller saves: none, one well-formed record, one malformed
\* object, and a well-formed record followed by a malformed object
SavedLists == { <<>>, <<1>>, <<4>>, <<3, 4>> }

\* a caller that awaits saveAnnotations(url, list)
SaveAnnotations(url, list, writeFails) ==
  /\ VersionOf(documents, generateDocumentId(url)) < MaxVersion
  /\ LET saved == saveAnnotations(heap, documents, storage, url, list, writeFails)
     IN  /\ documents' = saved.documents
         /\ storage' = saved.storage
         /\ outcome' = [ setItem   |-> saved.setItem,
                         promise   |-> saved.promise,
                         unhandled |-> FALSE ]
  /\ call' = "saveAnnotations"
  /\ UNCHANGED inFlight
  /\ UNCHANGED uiVars
  /\ ret' = NoValue
  /\ UNCHANGED <<heap, historyVars, appVars>>

\* a caller that awaits loadAnnotations(url)
LoadAnnotations(url) ==
  /\ call' = "loadAnnotations"
  /\ UNCHANGED inFlight
  /\ UNCHANGED uiVars
  /\ ret' = Returned(loadAnnotations(documents, url))
  /\ outcome' = [setItem |-> "none", promise |-> "fulfilled", unhandled |-> FALSE]
  /\ UNCHANGED <<heap, historyVars, documents, storage, appVars>>

NextGateway ==
  \/ \E url \in Urls, list \in SavedLists, writeFails \in BOOLEAN :
       SaveAnnotations(url, list, writeFails)
  \/ \E url \in Urls : LoadAnnotations(url)

SpecGateway == InitHistory /\ [][NextGateway]_vars

(***************************************************************************)
(* The gateway's operations on single records and its import.  Each is     *)
(* called by a caller that awaits it before the next call.  An operation   *)
(* that builds or parses objects is given the heap that holds them.        *)
(***************************************************************************)
\* the ids a delete is asked for
AnnotationIds == {InitialHeap[o].id : o \in Refs}

\* what an operation that returns before any write reports
NoWrite(docs, item, promise) ==
  [documents |-> docs, storage |-> item, setItem |-> "none", promise |-> promise]

\* addAnnotation(pdfUrl, annotation)
addAnnotation(h, docs, item, url, o, writeFails) ==
  LET existingAnnotations == loadAnnotations(docs, url)
      updatedAnnotations  == Append(existingAnnotations, o)
  IN  saveAnnotations(h, docs, item, url, updatedAnnotations, writeFails)

\* existingAnnotations.findIndex(a => a.id === id), counted from 1; 0 for -1
findIndex(h, list, id) ==
  IF \E i \in DOMAIN list : h[list[i]].id = id
  THEN CHOOSE i \in DOMAIN list :
         /\ h[list[i]].id = id
         /\ \A j \in DOMAIN list : h[list[j]].id = id => i <= j
  ELSE 0

\* updateAnnotation(pdfUrl, annotation); updated is the object
\* { ...annotation, updatedAt: new Date() }.  The error thrown for an id that
\* is not found is caught and thrown again by the catch clause.
updateAnnotation(h, docs, item, url, o, updated, writeFails) ==
  LET existingAnnotations == loadAnnotations(docs, url)
      index               == findIndex(h, existingAnnotations, h[o].id)
  IN  IF index = 0
      THEN NoWrite(docs, item, "rejected")
      ELSE saveAnnotations(h, docs, item, url,
                           [existingAnnotations EXCEPT ![index] = updated],
                           writeFails)

\* deleteAnnotation(pdfUrl, annotationId)
deleteAnnotation(h, docs, item, url, annotationId, writeFails) ==
  LET existingAnnotations == loadAnnotations(docs, url)
      filteredAnnotations == SelectSeq(existingAnnotations,
                                       LAMBDA a : h[a].id # annotationId)
  IN  IF Len(filteredAnnotations) = Len(existingAnnotations)
      THEN NoWrite(docs, item, "fulfilled")
      ELSE saveAnnotations(h, docs, item, url, filteredAnnotations, writeFails)

\* mergeAnnotations(existing, imported)
mergeAnnotations(h, existing, imported) ==
  LET existingIds == {h[existing[i]].id : i \in DOMAIN existing}
  IN  existing \o SelectSeq(imported, LAMBDA a : h[a].id \notin existingIds)

\* importAnnotations(pdfUrl, data) once JSON.parse has returned the objects
\* parsed; count is what the promise resolves to
importAnnotations(h, docs, item, url, parsed, writeFails) ==
  LET validAnnotations == SelectSeq(parsed, LAMBDA a : validateAnnotation(h[a]))
  IN  IF Len(validAnnotations) = 0
      THEN NoWrite(docs, item, "rejected") @@ [count |-> Undefined]
      ELSE LET existingAnnotations == loadAnnotations(docs, url)
               mergedAnnotations   == mergeAnnotations(h, existingAnnotations,
                                                       validAnnotations)
               saved == saveAnnotations(h, docs, item, url, mergedAnnotations,
                                        writeFails)
           IN  saved @@ [count |-> IF saved.promise = "fulfilled"
                                   THEN Num(Len(validAnnotations))
                                   ELSE Undefined]

\* the instants new Date() may show
Times == 1..MaxTime

\* the texts a caller imports: JSON arrays of records, in which a Date is the
\* string it was written as, and a text that is not JSON
ImportData ==
  LET wellFormed == JsonRecord(Annotation(2, Str(1), 1))
      sameId     == JsonRecord(Annotation(1, Str(3), 1))
      noId       == [JsonRecord(Annotation(3, Str(1), 1)) EXCEPT !.id = Undefined]
  IN  { [parses |-> FALSE, records |-> <<>>],
        [parses |-> TRUE,  records |-> <<>>],
        [parses |-> TRUE,  records |-> <<noId>>],
        [parses |-> TRUE,  records |-> <<wellFormed, noId>>],
        [parses |-> TRUE,  records |-> <<sameId>>] }

\* the references of n objects allocated after those of h
Allocated(h, n) == [i \in 1..n |-> Len(h) + i]

Settled(saved) ==
  /\ documents' = saved.documents
  /\ storage' = saved.storage
  /\ outcome' = [ setItem   |-> saved.setItem,
                  promise   |-> saved.promise,
                  unhandled |-> FALSE ]

AddAnnotation(url, o, writeFails) ==
  /\ VersionOf(documents, generateDocumentId(url)) < MaxVersion
  /\ Settled(addAnnotation(heap, documents, storage, url, o, writeFails))
  /\ call' = "addAnnotation"
  /\ UNCHANGED inFlight
  /\ UNCHANGED uiVars
  /\ ret' = NoValue
  /\ UNCHANGED <<heap, historyVars, appVars>>

UpdateAnnotation(url, o, now, writeFails) ==
  /\ VersionOf(documents, generateDocumentId(url)) < MaxVersion
  /\ Len(heap) < MaxObjects
  /\ LET found == findIndex(heap, loadAnnotations(documents, url), heap[o].id) # 0
         h     == IF found
                  THEN Append(heap, [heap[o] EXCEPT !.updatedAt = DateOf(now)])
                  ELSE heap
     IN  /\ heap' = h
         /\ Settled(updateAnnotation(h, documents, storage, url, o, Len(h), writeFails))
  /\ call' = "updateAnnotation"
  /\ UNCHANGED inFlight
  /\ UNCHANGED uiVars
  /\ ret' = NoValue
  /\ UNCHANGED <<historyVars, appVars>>

DeleteAnnotation(url, annotationId, writeFails) ==
  /\ VersionOf(documents, generateDocumentId(url)) < MaxVersion
  /\ Settled(deleteAnnotation(heap, documents, storage, url, annotationId, writeFails))
  /\ call' = "deleteAnnotation"
  /\ UNCHANGED inFlight
  /\ UNCHANGED uiVars
  /\ ret' = NoValue
  /\ UNCHANGED <<heap, historyVars, appVars>>

ImportAnnotations(url, data, writeFails) ==
  /\ VersionOf(documents, generateDocumentId(url)) < MaxVersion
  /\ Len(heap) + Len(data.records) <= MaxObjects
  /\ IF data.parses
     THEN LET h        == heap \o data.records
              imported == importAnnotations(h, documents, storage, url,
                                            Allocated(heap, Len(data.records)),
                                            writeFails)
          IN  /\ heap' = h
              /\ Settled(imported)
              /\ ret' = [null |-> FALSE, value |-> imported.count]
     ELSE /\ UNCHANGED <<heap, documents, storage>>
          /\ outcome' = [setItem |-> "none", promise |-> "rejected", unhandled |-> FALSE]
          /\ ret' = [null |-> FALSE, value |-> Undefined]
  /\ call' = "importAnnotations"
  /\ UNCHANGED inFlight
  /\ UNCHANGED uiVars
  /\ UNCHANGED <<historyVars, appVars>>

\* the document the callers of these operations work on
RecordUrls == { <<65, 97>> }

NextRecords ==
  \/ \E url \in RecordUrls, o \in AllRefs, writeFails \in BOOLEAN :
       AddAnnotation(url, o, writeFails)
  \/ \E url \in RecordUrls, o \in Refs, now \in Times, writeFails \in BOOLEAN :
       UpdateAnnotation(url, o, now, writeFails)
  \/ \E url \in RecordUrls, annotationId \in AnnotationIds, writeFails \in BOOLEAN :
       DeleteAnnotation(url, annotationId, writeFails)
  \/ \E url \in RecordUrls, data \in ImportData, writeFails \in BOOLEAN :
       ImportAnnotations(url, data, writeFails)
  \/ \E url \in RecordUrls : LoadAnnotations(url)

SpecRecords == InitHistory /\ [][NextRecords]_vars

\* a JSON array in which two records have the same id
RepeatedId ==
  [ parses  |-> TRUE,
    records |-> << JsonRecord(Annotation(2, Str(1), 1)),
                   JsonRecord(Annotation(2, Str(2), 2)) >> ]

NextImport ==
  \/ NextRecords
  \/ \E url \in RecordUrls, writeFails \in BOOLEAN :
       ImportAnnotations(url, RepeatedId, writeFails)

SpecImport == InitHistory /\ [][NextImport]_vars

(***************************************************************************)
(* addAnnotation called by callers that do not await it.  The call runs    *)
(* loadAnnotations, which reads the map at once, and waits at its first    *)
(* await; the calls go on in the order they were made, and what follows    *)
(* the await (saveAnnotations, up to and including the write) runs without *)
(* another wait.                                                           *)
(***************************************************************************)
\* the calls that may wait at the same time
MaxCalls == 2

\* the calls in flight that will write the document of url
Waiting(url) ==
  Cardinality({i \in DOMAIN inFlight :
                 generateDocumentId(inFlight[i].pdfUrl) = generateDocumentId(url)})

\* addAnnotation(pdfUrl, annotation) up to `await this.loadAnnotations(pdfUrl)`
AddAnnotationCalled(url, o) ==
  /\ Len(inFlight) < MaxCalls
  /\ VersionOf(documents, generateDocumentId(url)) + Waiting(url) < MaxVersion
  /\ inFlight' = Append(inFlight,
                        [ pdfUrl              |-> url,
                          annotation         |-> o,
                          existingAnnotations |-> loadAnnotations(documents, url) ])
  /\ call' = "addAnnotationCalled"
  /\ ret' = NoValue
  /\ UNCHANGED uiVars
  /\ UNCHANGED <<heap, historyVars, documents, storage, outcome, appVars>>

\* the rest of the call that has waited longest
AddAnnotationResumed(writeFails) ==
  /\ inFlight # <<>>
  /\ LET resumed            == inFlight[1]
         updatedAnnotations == Append(resumed.existingAnnotations, resumed.annotation)
     IN  Settled(saveAnnotations(heap, documents, storage, resumed.pdfUrl,
                                 updatedAnnotations, writeFails))
  /\ inFlight' = Tail(inFlight)
  /\ call' = "addAnnotationResumed"
  /\ ret' = NoValue
  /\ UNCHANGED uiVars
  /\ UNCHANGED <<heap, historyVars, appVars>>

NextOverlap ==
  \/ \E url \in Urls, o \in Refs : AddAnnotationCalled(url, o)
  \/ \E writeFails \in BOOLEAN : AddAnnotationResumed(writeFails)

SpecOverlap == InitHistory /\ [][NextOverlap]_vars

(***************************************************************************)
(* AnnotationDemo, the orchestrator.  The initial state is the component   *)
(* mounted on an empty store: its load effect has found no document, set   *)
(* the empty list and initialized the engine with it.  React runs the save *)
(* effect scheduled by a change of `annotations` before it handles the     *)
(* next event.                                                             *)
(***************************************************************************)
\* the store still has room for the write that follows a change
CanSave == VersionOf(documents, generateDocumentId(demo.pdfUrl)) < MaxVersion

\* setAnnotations(list): the state changes and the save effect is scheduled
SetAnnotations(list) ==
  /\ demo' = [demo EXCEPT !.annotations = list]
  /\ effects' = "save"

HandleAnnotationAdd(o) ==
  /\ effects = "none"
  /\ CanSave
  /\ Len(demo.annotations) < MaxAnnotations
  /\ \A i \in DOMAIN demo.annotations : heap[demo.annotations[i]].id # heap[o].id
  /\ LET newAnnotations == Append(demo.annotations, o)
     IN  /\ SetEngine(saveState(Engine, newAnnotations, createAddAction(heap[o])))
         /\ SetAnnotations(newAnnotations)
  /\ call' = "handleAnnotationAdd"
  /\ UNCHANGED uiVars
  /\ ret' = NoValue
  /\ UNCHANGED <<heap, debounceTimer, timers, gatewayVars>>

HandleAnnotationUpdate(o) ==
  /\ effects = "none"
  /\ CanSave
  /\ LET newAnnotations == [i \in DOMAIN demo.annotations |->
                              IF heap[demo.annotations[i]].id = heap[o].id
                              THEN o
                              ELSE demo.annotations[i]]
     IN  /\ SetEngine(saveState(Engine, newAnnotations, createUpdateAction(heap[o])))
         /\ SetAnnotations(newAnnotations)
  /\ call' = "handleAnnotationUpdate"
  /\ UNCHANGED uiVars
  /\ ret' = NoValue
  /\ UNCHANGED <<heap, debounceTimer, timers, gatewayVars>>

HandleAnnotationDelete(annotationId) ==
  /\ effects = "none"
  /\ CanSave
  /\ LET found          == SelectSeq(demo.annotations, LAMBDA a : heap[a].id = annotationId)
         newAnnotations == SelectSeq(demo.annotations, LAMBDA a : heap[a].id # annotationId)
     IN  /\ IF found # <<>>
            THEN SetEngine(saveState(Engine, newAnnotations,
                                     createDeleteAction(heap[found[1]])))
            ELSE UNCHANGED history
         /\ SetAnnotations(newAnnotations)
  /\ call' = "handleAnnotationDelete"
  /\ UNCHANGED uiVars
  /\ ret' = NoValue
  /\ UNCHANGED <<heap, debounceTimer, timers, gatewayVars>>

HandleUndo ==
  /\ effects = "none"
  /\ CanSave
  /\ canUndo => Len(undoStack[Len(undoStack)].action.description) < MaxDescription
  /\ LET previousState == undo(Engine)
     IN  /\ SetEngine(previousState.engine)
         /\ IF previousState.ret.null
            THEN UNCHANGED <<demo, effects>>
            ELSE SetAnnotations(previousState.ret.value)
         /\ ret' = previousState.ret
  /\ call' = "handleUndo"
  /\ UNCHANGED uiVars
  /\ UNCHANGED <<heap, debounceTimer, timers, gatewayVars>>

HandleRedo ==
  /\ effects = "none"
  /\ CanSave
  /\ canRedo => Len(redoStack[Len(redoStack)].action.description) < MaxDescription
  /\ LET nextState == redo(Engine)
     IN  /\ SetEngine(nextState.engine)
         /\ IF nextState.ret.null
            THEN UNCHANGED <<demo, effects>>
            ELSE SetAnnotations(nextState.ret.value)
         /\ ret' = nextState.ret
  /\ call' = "handleRedo"
  /\ UNCHANGED uiVars
  /\ UNCHANGED <<heap, debounceTimer, timers, gatewayVars>>

\* try { await p } catch (error) { console.error(...) }: how the promise of
\* the enclosing async function settles
TryCatch(promise) == IF promise = "rejected" THEN "fulfilled" ELSE promise

\* the save effect; nothing is attached to the promise of its async function
SaveEffect(writeFails) ==
  /\ effects = "save"
  /\ IF Len(demo.annotations) > 0
     THEN LET saved == saveAnnotations(heap, documents, storage, demo.pdfUrl,
                                       demo.annotations, writeFails)
          IN  /\ documents' = saved.documents
              /\ storage' = saved.storage
              /\ outcome' = [ setItem   |-> saved.setItem,
                              promise   |-> saved.promise,
                              unhandled |-> TryCatch(saved.promise) = "rejected" ]
     ELSE /\ UNCHANGED <<documents, storage>>
          /\ outcome' = NoOutcome
  /\ effects' = "none"
  /\ call' = "saveEffect"
  /\ UNCHANGED inFlight
  /\ UNCHANGED uiVars
  /\ ret' = NoValue
  /\ UNCHANGED <<heap, historyVars, demo>>

NextApp ==
  \/ \E o \in Refs : HandleAnnotationAdd(o)
  \/ \E o \in Refs : HandleAnnotationUpdate(o)
  \/ \E annotationId \in AnnotationIds : HandleAnnotationDelete(annotationId)
  \/ HandleUndo
  \/ HandleRedo
  \/ \E writeFails \in BOOLEAN : SaveEffect(writeFails)

SpecApp == InitHistory /\ [][NextApp]_vars

(***************************************************************************)
(* TextNote, whose onUpdate is the orchestrator's handleAnnotationUpdate   *)
(* (handed down unchanged by the viewer and the annotation layer).         *)
(***************************************************************************)
\* what the editor of a note holds when it is saved, already trimmed
NoteContents == {Str(1), Str(2)}

\* the record handleSave builds: { ...annotation, content, updatedAt: new Date() }
handleSave(annotation, trimmed, now) ==
  [annotation EXCEPT !.content = trimmed, !.updatedAt = DateOf(now)]

\* handleSave of the note of record o, one of the records the orchestrator
\* hands down, and the handleAnnotationUpdate that onUpdate runs with the
\* record just built
HandleSave(o, trimmed, now) ==
  /\ effects = "none"
  /\ CanSave
  /\ Len(heap) < MaxObjects
  /\ \E i \in DOMAIN demo.annotations : demo.annotations[i] = o
  /\ LET updatedAnnotation == Len(heap) + 1
         newAnnotations    == [i \in DOMAIN demo.annotations |->
                                 IF heap[demo.annotations[i]].id = heap[o].id
                                 THEN updatedAnnotation
                                 ELSE demo.annotations[i]]
     IN  /\ heap' = Append(heap, handleSave(heap[o], trimmed, now))
         /\ \E h \in {Engine}, list \in {newAnnotations},
                action \in {createUpdateAction(heap[o])} :
              SetEngine(saveState(h, list, action)')
         /\ SetAnnotations(newAnnotations)
  /\ call' = "handleSave"
  /\ UNCHANGED uiVars
  /\ ret' = NoValue
  /\ UNCHANGED <<debounceTimer, timers, gatewayVars>>

NextNotes ==
  \/ NextApp
  \/ \E o \in DOMAIN heap, trimmed \in NoteContents, now \in Times :
       HandleSave(o, trimmed, now)

SpecNotes == InitHistory /\ [][NextNotes]_vars

(***************************************************************************)
(* The orchestrator given another document.  A change of the prop pdfUrl   *)
(* renders the component again and React runs, in the order of their       *)
(* declaration, the two effects that depend on pdfUrl: the load effect,    *)
(* which calls loadAnnotations and awaits its promise, then the save       *)
(* effect, which writes before it awaits anything.  The load effect goes   *)
(* on after the await, before the next event is handled; `ret` is what the *)
(* promise of loadAnnotations has resolved to.                             *)
(***************************************************************************)
SetPdfUrl(url, writeFails) ==
  /\ effects = "none"
  /\ url # demo.pdfUrl
  /\ LET loadedAnnotations == loadAnnotations(documents, url)
     IN  /\ VersionOf(documents, generateDocumentId(url))
              + (IF Len(demo.annotations) > 0 THEN 1 ELSE 0)
              + (IF Len(loadedAnnotations) > 0 THEN 1 ELSE 0) <= MaxVersion
         /\ ret' = Returned(loadedAnnotations)
  /\ IF Len(demo.annotations) > 0
     THEN LET saved == saveAnnotations(heap, documents, storage, url,
                                       demo.annotations, writeFails)
          IN  /\ documents' = saved.documents
              /\ storage' = saved.storage
              /\ outcome' = [ setItem   |-> saved.setItem,
                              promise   |-> saved.promise,
                              unhandled |-> TryCatch(saved.promise) = "rejected" ]
     ELSE /\ UNCHANGED <<documents, storage>>
          /\ outcome' = NoOutcome
  /\ demo' = [demo EXCEPT !.pdfUrl = url]
  /\ effects' = "load"
  /\ call' = "setPdfUrl"
  /\ UNCHANGED inFlight
  /\ UNCHANGED uiVars
  /\ UNCHANGED <<heap, historyVars>>

\* the load effect after its await: setAnnotations(loadedAnnotations) and
\* annotationHistoryService.initialize(loadedAnnotations)
LoadEffect ==
  /\ effects = "load"
  /\ SetAnnotations(ret.value)
  /\ SetEngine(initialize(ret.value))
  /\ call' = "loadEffect"
  /\ ret' = NoValue
  /\ UNCHANGED uiVars
  /\ UNCHANGED <<heap, debounceTimer, timers, gatewayVars>>

NextDocuments ==
  \/ NextApp
  \/ \E url \in Urls, writeFails \in BOOLEAN : SetPdfUrl(url, writeFails)
  \/ LoadEffect

SpecDocuments == InitHistory /\ [][NextDocuments]_vars

(***************************************************************************)
(* A caller that edits a record object in place, after having handed it to *)
(* the engine.                                                             *)
(***************************************************************************)
EditedContent == Str(3)

MutateRecord(o) ==
  /\ heap[o].content # EditedContent
  /\ heap' = [heap EXCEPT ![o].content = EditedContent]
  /\ call' = "mutate"
  /\ UNCHANGED uiVars
  /\ ret' = NoValue
  /\ UNCHANGED <<historyVars, gatewayVars, appVars>>

NextShared ==
  \/ NextHistory
  \/ \E o \in Refs : MutateRecord(o)

SpecShared == InitHistory /\ [][NextShared]_vars

(***************************************************************************)
(* The events delivered to ShapeDrawer.  React renders between two events, *)
(* so a handler sees the state and the props the event before it left.     *)
(***************************************************************************)
\* the state is set and the records go through the layer to its caller
Deliver(handled, event) ==
  /\ drawingState' = handled.state
  /\ emitted' = handled.emitted
  /\ layerAdded' = [i \in DOMAIN handled.emitted |->
                      handleCanvasAnnotationAdd(handled.emitted[i], shapeProps.scale)]
  /\ recent' = Found(drawingState)
  /\ call' = event
  /\ ret' = NoValue
  /\ UNCHANGED <<heap, historyVars, gatewayVars, appVars, mapperVars, textVars, shapeProps>>

MouseDown(event) ==
  Deliver(handleMouseDown(drawingState, shapeProps, event), "mouseDown")

MouseMove(event) ==
  Deliver(handleMouseMove(drawingState, shapeProps, event), "mouseMove")

MouseUp ==
  Deliver(handleMouseUp(drawingState, shapeProps), "mouseUp")

MouseLeave ==
  Deliver(handleMouseLeave(drawingState), "mouseLeave")

KeyDown(key) ==
  Deliver(handleKeyDown(drawingState, key), key)

\* the parent renders ShapeDrawer with other props
SetProps(props) ==
  /\ props # shapeProps
  /\ shapeProps' = props
  /\ emitted' = <<>>
  /\ layerAdded' = <<>>
  /\ call' = "props"
  /\ ret' = NoValue
  /\ UNCHANGED <<heap, historyVars, gatewayVars, appVars, mapperVars, textVars, drawingState, recent>>

NextShape ==
  \/ \E event \in ClientPoints : MouseDown(event)
  \/ \E event \in ClientPoints : MouseMove(event)
  \/ MouseUp
  \/ MouseLeave
  \/ \E key \in {"Escape", "Enter"} : KeyDown(key)
  \/ \E props \in [disabled : BOOLEAN, selectedTool : Tools, scale : Scales] :
       SetProps(props)

SpecShape == InitHistory /\ [][NextShape]_vars

(***************************************************************************)
(* Events of the text selection: the host's selectionchange, the callback  *)
(* that a mouse-up or a shift+arrow key-up schedules, and the click,       *)
(* double-click and key-down that TextHighlighter listens to on the        *)
(* document.  removeAllRanges leaves the native selection without a range; *)
(* the selectionchange the host then sends is an event like any other.     *)
(***************************************************************************)
\* the listeners another component adds and removes
Listeners == {"observer"}

\* each call the service made to TextHighlighter's handleSelectionChange
RECURSIVE Listened(_, _, _)
Listened(state, props, calls) ==
  IF calls = <<>> THEN state
  ELSE Listened(IF Head(calls).listener = "TextHighlighter"
                THEN highlighterHandleSelectionChange(state, props, Head(calls).selection)
                ELSE state,
                props, Tail(calls))

\* an operation of the service
Service(serviced, event) ==
  /\ selectionService' = serviced.service
  /\ notified' = serviced.notified
  /\ highlighter' = Listened(highlighter, textProps, serviced.notified)
  /\ added' = <<>>
  /\ call' = event
  /\ ret' = NoValue
  /\ UNCHANGED <<heap, historyVars, gatewayVars, appVars, mapperVars, shapeVars, textProps>>

\* an event TextHighlighter handles
HighlighterEvent(highlighted, event) ==
  /\ highlighter' = highlighted.state
  /\ added' = highlighted.added
  /\ windowSelection' = IF highlighted.removed THEN NoRanges ELSE windowSelection
  /\ notified' = <<>>
  /\ call' = event
  /\ ret' = NoValue
  /\ UNCHANGED <<heap, historyVars, gatewayVars, appVars, mapperVars, shapeVars, textProps,
                 selectionService>>

NewTextSelectionService(minSelectionLength, onSelectionChange) ==
  /\ selectionService' = NewService(minSelectionLength, onSelectionChange)
  /\ highlighter' = NoSelection
  /\ notified' = <<>>
  /\ added' = <<>>
  /\ call' = "new TextSelectionService"
  /\ ret' = NoValue
  /\ UNCHANGED <<heap, historyVars, gatewayVars, appVars, mapperVars, shapeVars, textProps,
                 windowSelection>>

AddSelectionChangeListener(listener) ==
  /\ \A i \in DOMAIN selectionService.selectionChangeListeners :
       selectionService.selectionChangeListeners[i] # listener
  /\ windowSelection' = windowSelection
  /\ Service(Serviced([selectionService EXCEPT !.selectionChangeListeners =
                         Append(@, listener)], <<>>),
             "addSelectionChangeListener")

RemoveSelectionChangeListener(listener) ==
  /\ \E i \in DOMAIN selectionService.selectionChangeListeners :
       selectionService.selectionChangeListeners[i] = listener
  /\ windowSelection' = windowSelection
  /\ Service(Serviced([selectionService EXCEPT !.selectionChangeListeners =
                         SelectSeq(@, LAMBDA l : l # listener)], <<>>),
             "removeSelectionChangeListener")

\* the host's selectionchange, delivered to the handlers the document holds
SelectionChange(selection) ==
  /\ windowSelection' = selection
  /\ Service(IF Listens(selectionService, "selectionchange")
             THEN serviceHandleSelectionChange(selectionService, selection)
             ELSE Serviced(selectionService, <<>>),
             "selectionchange")

\* the callback that the handler of a mouse-up or of a shift+arrow key-up
\* scheduled
FinalizeSelection ==
  /\ Listens(selectionService, "mouseup") \/ Listens(selectionService, "keyup")
  /\ windowSelection' = windowSelection
  /\ Service(finalizeSelection(selectionService, windowSelection), "finalizeSelection")

DestroyService ==
  /\ windowSelection' = windowSelection
  /\ Service(Serviced(destroy(selectionService), <<>>), "destroy")

Click(inside) == HighlighterEvent(handleClick(highlighter, textProps, inside), "click")

DoubleClick ==
  HighlighterEvent(handleDoubleClick(highlighter, textProps, windowSelection,
                               selectionService.currentSelection),
             "dblclick")

TextKeyDown(key) == HighlighterEvent(highlighterHandleKeyDown(highlighter, textProps, key), key)

\* the parent renders TextHighlighter with other props
SetTextProps(props) ==
  /\ props # textProps
  /\ textProps' = props
  /\ notified' = <<>>
  /\ added' = <<>>
  /\ call' = "props"
  /\ ret' = NoValue
  /\ UNCHANGED <<heap, historyVars, gatewayVars, appVars, mapperVars, shapeVars,
                 selectionService, windowSelection, highlighter>>

NextText ==
  \/ \E minSelectionLength \in MinSelectionLengths :
       NewTextSelectionService(minSelectionLength, Undefined)
  \/ \E listener \in Listeners : AddSelectionChangeListener(listener)
  \/ \E listener \in Listeners : RemoveSelectionChangeListener(listener)
  \/ \E selection \in WindowSelections : SelectionChange(selection)
  \/ FinalizeSelection
  \/ \E inside \in BOOLEAN : Click(inside)
  \/ DoubleClick
  \/ \E key \in {"Enter", "Escape"} : TextKeyDown(key)
  \/ \E props \in [disabled : BOOLEAN, selectedTool : TextTools, pageNumber : {1}] :
       SetTextProps(props)

SpecText == InitHistory /\ [][NextText]_vars

\* the service from its construction to after its destroy()
NextTeardown ==
  \/ \E onSelectionChange \in {Undefined, Callback} :
       NewTextSelectionService(Num(1), onSelectionChange)
  \/ \E listener \in Listeners : AddSelectionChangeListener(listener)
  \/ \E listener \in Listeners : RemoveSelectionChangeListener(listener)
  \/ \E selection \in WindowSelections : SelectionChange(selection)
  \/ FinalizeSelection
  \/ DestroyService

SpecTeardown == InitHistory /\ [][NextTeardown]_vars

(***************************************************************************)
(* A caller of the coordinate mapper.  It holds a viewport and converts a   *)
(* rectangle, then converts the result back.  The numbers are held as the  *)
(* integer Units times their value; a division by the scale 0, whose       *)
(* results are not finite, is not modelled.                                *)
(***************************************************************************)
\* the arguments of createViewportTransform
ViewportScales == {-1, 0, 1, 2}
ViewportRotations == {-90, 0, 90, 180, 450}
ViewportOffsets == {0, 10 * Units}

\* the rectangles a caller converts: with a width and a height, with 0 for
\* them, and without them
Rectangles ==
  [ t      : {"object"},
    x      : {Num(100 * Units)},
    y      : {Num(100 * Units)},
    width  : {Undefined, Num(0), Num(50 * Units)},
    height : {Undefined, Num(0), Num(30 * Units)} ]

Mapped(state, event, value) ==
  /\ mapper' = state
  /\ call' = event
  /\ ret' = Returned(value)
  /\ UNCHANGED <<heap, historyVars, gatewayVars, appVars, shapeVars, textVars>>

CreateViewportTransform(scale, rotation, offsetX, offsetY) ==
  Mapped([ viewport    |-> createViewportTransform(scale, rotation, offsetX, offsetY),
           coordinates |-> <<>> ],
         "createViewportTransform",
         createViewportTransform(scale, rotation, offsetX, offsetY))

PdfToCanvas(pdfCoords) ==
  Mapped([mapper EXCEPT !.coordinates =
            <<pdfCoords, pdfToCanvas(pdfCoords, pageDimensions, mapper.viewport)>>],
         "pdfToCanvas", pdfToCanvas(pdfCoords, pageDimensions, mapper.viewport))

CanvasToPdf(canvasCoords) ==
  /\ mapper.viewport.scale # 0
  /\ Mapped([mapper EXCEPT !.coordinates =
               <<canvasCoords, canvasToPdf(canvasCoords, pageDimensions, mapper.viewport)>>],
            "canvasToPdf", canvasToPdf(canvasCoords, pageDimensions, mapper.viewport))

\* the result of pdfToCanvas is converted with canvasToPdf
CanvasToPdfBack ==
  /\ call = "pdfToCanvas"
  /\ Len(mapper.coordinates) = 2
  /\ mapper.viewport.scale # 0
  /\ Mapped([mapper EXCEPT !.coordinates =
               Append(@, canvasToPdf(@[2], pageDimensions, mapper.viewport))],
            "canvasToPdf",
            canvasToPdf(mapper.coordinates[2], pageDimensions, mapper.viewport))

\* the result of canvasToPdf is converted with pdfToCanvas
PdfToCanvasBack ==
  /\ call = "canvasToPdf"
  /\ Len(mapper.coordinates) = 2
  /\ Mapped([mapper EXCEPT !.coordinates =
               Append(@, pdfToCanvas(@[2], pageDimensions, mapper.viewport))],
            "pdfToCanvas",
            pdfToCanvas(mapper.coordinates[2], pageDimensions, mapper.viewport))

NextMapper ==
  \/ \E scale \in ViewportScales, rotation \in ViewportRotations,
        offsetX \in ViewportOffsets, offsetY \in ViewportOffsets :
       CreateViewportTransform(scale, rotation, offsetX, offsetY)
  \/ \E pdfCoords \in Rectangles : PdfToCanvas(pdfCoords)
  \/ \E canvasCoords \in Rectangles : CanvasToPdf(canvasCoords)
  \/ CanvasToPdfBack
  \/ PdfToCanvasBack

SpecMapper == InitHistory /\ [][NextMapper]_vars

(***************************************************************************)
(* A caller of the engine's comparison (saveState): it compares a list     *)
(* with a rearrangement of it in which at most one record has one field    *)
(* changed.                                                                *)
(***************************************************************************)
\* a record with a points array
Pointed ==
  [Annotation(2, Str(1), 1) EXCEPT !.coordinates.points = ArrayOf(<<1, 2>>)]

\* the records that differ from r in one field
Edits(r) ==
  { [r EXCEPT !.id = Str(3)],
    [r EXCEPT !.type = Str(2)],
    [r EXCEPT !.pageNumber = Num(2)],
    [r EXCEPT !.content = Str(3)],
    [r EXCEPT !.coordinates.x = Num(11)],
    [r EXCEPT !.coordinates.y = Num(21)],
    [r EXCEPT !.coordinates.width = Num(31)],
    [r EXCEPT !.coordinates.height = Num(41)],
    [r EXCEPT !.coordinates.points = ArrayOf(<<1, 3>>)],
    [r EXCEPT !.coordinates.points = ArrayOf(<<1, 2, 3>>)],
    [r EXCEPT !.style.color = Str(2)],
    [r EXCEPT !.style.strokeWidth = Num(3)],
    [r EXCEPT !.style.opacity = Num(2)],
    [r EXCEPT !.style.fontSize = Num(12)],
    [r EXCEPT !.createdAt = DateOf(2)],
    [r EXCEPT !.updatedAt = DateOf(2)] } \ {r}

\* the lists compared: the engine's current state
ComparedLists ==
  { <<>>, <<Annotation(1, Str(1), 1)>>, <<Annotation(1, Str(1), 1), Pointed>>,
    <<Pointed, Annotation(1, Str(1), 1)>> }

\* the rearrangements of a list
Rearranged(list) ==
  {list} \cup (IF Len(list) = 2 THEN {<<list[2], list[1]>>} ELSE {})

\* the lists that differ from a rearrangement of the list in at most one
\* field of one record
NearLists(list) ==
  Rearranged(list) \cup
  UNION { { [l EXCEPT ![i] = e] : e \in Edits(l[i]) } :
            l \in Rearranged(list), i \in DOMAIN list }

\* this.areAnnotationsEqual(this.currentState, annotations)
AreAnnotationsEqual(a, b) ==
  /\ call' = "areAnnotationsEqual"
  /\ ret' = Returned([a |-> a, b |-> b, equal |-> areAnnotationsEqual(a, b)])
  /\ UNCHANGED <<heap, historyVars, gatewayVars, appVars, uiVars>>

NextEquality ==
  \E a \in ComparedLists : \E b \in NearLists(a) \cup {<<>>} : AreAnnotationsEqual(a, b)

SpecEquality == InitHistory /\ [][NextEquality]_vars

(***************************************************************************)
(* validateAnnotation applied to the objects a load or an import filters.  *)
(***************************************************************************)
\* objects that differ from a well-formed record in the fields read
Candidates ==
  { [Annotation(1, Str(1), 1) EXCEPT
       !.id = id, !.type = type, !.pageNumber = pageNumber,
       !.coordinates.x = x, !.style.color = color, !.createdAt = createdAt] :
    id \in {Str(1), Str(0), Num(1), Undefined},
    type \in {Str(5), Undefined},
    pageNumber \in {Num(1), Num(0), Undefined},
    x \in {Num(10), NaN, Undefined},
    color \in {Str(1), Str(0), Undefined},
    createdAt \in {DateOf(1), Undefined} }

\* annotations.filter(this.validateAnnotation), for one element
ValidateAnnotation(annotation) ==
  /\ call' = "validateAnnotation"
  /\ ret' = Returned([annotation |-> annotation, valid |-> validateAnnotation(annotation)])
  /\ UNCHANGED <<heap, historyVars, gatewayVars, appVars, uiVars>>

NextValidation ==
  \E annotation \in Candidates : ValidateAnnotation(annotation)

SpecValidation == InitHistory /\ [][NextValidation]_vars

(***************************************************************************)
(* Properties of the history engine.                                       *)
(***************************************************************************)
Top(stack) == stack[Len(stack)]

\* the two lists hold the same records, field by field, in some order
SameRecords(a, b) ==
  /\ Len(a) = Len(b)
  /\ \A r \in Range(a) \cup Range(b) :
       Cardinality({i \in DOMAIN a : a[i] = r}) = Cardinality({i \in DOMAIN b : b[i] = r})

\* this step is the call saveState(annotations, ActionFor(annotations), false)
IsSaveState(annotations) ==
  /\ call' = "saveState"
  /\ \/ currentState' = annotations
     \/ currentState' = currentState /\ Len(annotations) = Len(currentState)
  /\ SaveState(annotations, ActionFor(annotations))

\* C1: undo/redo symmetry. After initialize(A) and saveState(A+B, add B),
\* undo() returns A and the following redo() returns A+B; and from every
\* reachable state with a non-empty undo stack, undo() followed by redo()
\* returns the list that was current before the undo and leaves it current.
UndoRedoSymmetry ==
  /\ \A A \in AnnotationLists : \A B \in Refs :
       LET AB == Append(A, B)
           e  == saveState(initialize(A), AB, createAddAction(heap[B]))
           u  == undo(e)
           r  == redo(u.engine)
       IN  AB \in AnnotationLists =>
             /\ u.ret = Returned(A)
             /\ r.ret = Returned(AB)
             /\ r.engine.currentState = AB
  /\ canUndo =>
       LET u == undo(Engine)
           r == redo(u.engine)
       IN  /\ u.ret = Returned(Top(undoStack).annotations)
           /\ u.engine.currentState = Top(undoStack).annotations
           /\ r.ret = Returned(currentState)
           /\ r.engine.currentState = currentState

\* a redo has just given back a two-record list that an undo had taken away
UndoRedoSymmetryWitness ==
  /\ call = "redo"
  /\ ret = Returned(currentState)
  /\ Len(currentState) = 2
  /\ canUndo
  /\ canRedo

\* C2: a saveState whose annotations are the records of the current state,
\* in any order, changes neither stack nor the current state; saving the same
\* list twice adds one undo entry, not two.
NoOpSuppression ==
  [][call' = "saveState" =>
       \A annotations \in AnnotationLists :
         IsSaveState(annotations) =>
           /\ SameRecords(Deref(annotations, heap), Deref(currentState, heap))
                => UNCHANGED <<undoStack, redoStack, currentState>>
           /\ saveState(history', annotations, ActionFor(annotations)) = history'
           /\ Len(undoStack') <= Len(undoStack) + 1]_vars

\* a saveState on a freshly initialized two-record engine that pushed nothing
NoOpSuppressionWitness ==
  /\ call = "saveState"
  /\ Len(currentState) = 2
  /\ undoStack = <<>>
  /\ redoStack = <<>>

\* C3, as claimed: every saveState call empties the redo stack.
RedoInvalidatedByAnySave ==
  [][call' = "saveState" =>
       \A annotations \in AnnotationLists :
         IsSaveState(annotations) => redoStack' = <<>>]_vars

\* C3, amended: a saveState call whose annotations the engine's comparison
\* finds different from the current state empties the redo stack, so that the
\* next redo() returns null and canRedo() is false; one whose annotations it
\* finds equal leaves the redo stack as it is.
RedoInvalidation ==
  [][call' = "saveState" =>
       \A annotations \in AnnotationLists :
         IsSaveState(annotations) =>
           IF areAnnotationsEqual(Deref(currentState, heap), Deref(annotations, heap))
           THEN redoStack' = redoStack
           ELSE /\ redoStack' = <<>>
                /\ ~canRedo'
                     /\ redo(history').ret = NoValue]_vars

\* a save has replaced the state an undo had restored: the undo stack's top
\* entry is the one the save pushed, under entries a redo had built
RedoInvalidationWitness ==
  /\ call = "saveState"
  /\ redoStack = <<>>
  /\ Len(undoStack) = 2
  /\ undoStack[1].action.description[1] = "Undo:"

\* C4: both stacks hold at most maxHistorySize entries, and a push on a full
\* stack evicts its oldest entry, the others keeping their order.
BoundedStacks ==
  /\ [](Len(undoStack) <= maxHistorySize /\ Len(redoStack) <= maxHistorySize)
  /\ [][(call' = "saveState" /\ Len(undoStack) = maxHistorySize) =>
          \A annotations \in AnnotationLists :
            ( /\ currentState' # currentState
              /\ IsSaveState(annotations) )
            => undoStack' = Tail(undoStack) \o
                 <<[annotations |-> currentState, action |-> ActionFor(annotations)]>>]_vars
  /\ [][(Undo /\ canUndo /\ Len(redoStack) = maxHistorySize)
          => SubSeq(redoStack', 1, Len(redoStack') - 1) = Tail(redoStack)]_vars

\* a save on a full undo stack: the entry under the top is not the first
\* state of the engine any more
BoundedStacksWitness ==
  /\ call = "saveState"
  /\ Len(undoStack) = maxHistorySize
  /\ \A i \in DOMAIN undoStack : undoStack[i].annotations # <<>>
  /\ currentState = <<>>

\* C5: at most one deferred save is pending; a debounced saveState replaces
\* the pending one by its own annotations and action without touching the
\* stacks; when the timer fires, that one save runs, nothing stays pending
\* and at most one undo entry is added.
TrailingDebounce ==
  /\ [](/\ Cardinality(timers) <= 1
        /\ debounceTimer # 0 => \E tm \in timers : tm.id = debounceTimer)
  /\ [][call' = "saveStateDebounced" =>
        \A annotations \in AnnotationLists :
          SaveStateDebounced(annotations, ActionFor(annotations)) =>
            /\ \E tm \in timers' :
                 /\ timers' = {tm}
                 /\ tm.annotations = annotations
                 /\ tm.action = ActionFor(annotations)
            /\ UNCHANGED <<undoStack, redoStack, currentState>>]_vars
  /\ [][call' = "timer" =>
        \A tm \in timers :
          TimerFires(tm) =>
            /\ timers = {tm}
            /\ timers' = {}
            /\ debounceTimer' = 0
            /\ history' = saveState(Engine, tm.annotations, tm.action)
            /\ Len(undoStack') <= Len(undoStack) + 1]_vars

\* a debounced save that replaced a pending one is waiting for its delay
TrailingDebounceWitness ==
  /\ call = "saveStateDebounced"
  /\ debounceTimer = 2
  /\ Cardinality(timers) = 1

\* C6, as claimed: editing a record object after it was handed to the engine
\* changes no list held by an entry of the undo or redo stack.
SnapshotIsolation ==
  [][heap' # heap =>
       /\ \A i \in DOMAIN undoStack :
            Deref(undoStack[i].annotations, heap') = Deref(undoStack[i].annotations, heap)
       /\ \A i \in DOMAIN redoStack :
            Deref(redoStack[i].annotations, heap') = Deref(redoStack[i].annotations, heap)]_vars

\* C7: undo() on an empty undo stack and redo() on an empty redo stack return
\* null and change neither stack nor the current state.
EmptyStackNoOp ==
  [][/\ (Undo /\ ~canUndo) =>
          (ret' = NoValue /\ UNCHANGED <<undoStack, redoStack, currentState>>)
     /\ (Redo /\ ~canRedo) =>
          (ret' = NoValue /\ UNCHANGED <<undoStack, redoStack, currentState>>)]_vars

\* undo() has returned null on an engine that holds a list and no history
EmptyStackNoOpWitness ==
  /\ call = "undo"
  /\ ret = NoValue
  /\ ~canUndo
  /\ currentState # <<>>

(***************************************************************************)
(* Properties of the orchestrator and of the persistence gateway.          *)
(***************************************************************************)
\* the list the store holds for the document of url
PersistedFor(url) ==
  IF generateDocumentId(url) \in DOMAIN storage
  THEN storage[generateDocumentId(url)].annotations
  ELSE <<>>

\* the list as the store would hold it
AsStored(list) == [i \in DOMAIN list |-> JsonRecord(heap[list[i]])]

\* C8: once the save effect that follows a change of the collection has run
\* and its write, if any, has completed, the list persisted for the open
\* document equals the in-memory collection, whether that is empty or not.
PersistedEqualsMemory ==
  (call = "saveEffect" /\ outcome.setItem # "threw")
    => PersistedFor(demo.pdfUrl) = AsStored(demo.annotations)

\* the records of list that pass validation, in order
ValidRecords(list) == SelectSeq(list, LAMBDA o : validateAnnotation(heap[o]))

\* C9: nothing is loaded for a key before anything is saved under it; a
\* completed save of a list under a key makes load(key) return the valid
\* records of that list and leaves load of every other key as it was; and
\* nothing but a save changes what load returns.
LastWriteWins ==
  /\ \A url \in Urls : loadAnnotations(documents, url) = <<>>
  /\ [][/\ call' = "saveAnnotations" /\ outcome'.promise = "fulfilled" =>
             \A url \in Urls, list \in SavedLists :
               SaveAnnotations(url, list, FALSE) =>
                 /\ loadAnnotations(documents', url) = ValidRecords(list)
                 /\ \A other \in Urls :
                      generateDocumentId(other) # generateDocumentId(url) =>
                        loadAnnotations(documents', other)
                          = loadAnnotations(documents, other)
        /\ call' # "saveAnnotations" =>
             \A url \in Urls :
               loadAnnotations(documents', url) = loadAnnotations(documents, url)]_vars

\* a second completed save under a key has replaced a list holding a
\* malformed object, which load dropped, while another key holds a document
LastWriteWinsWitness ==
  /\ call = "saveAnnotations"
  /\ outcome.promise = "fulfilled"
  /\ VersionOf(documents, generateDocumentId(<<65, 97>>)) > 1
  /\ generateDocumentId(<<67>>) \in DOMAIN documents
  /\ documents[generateDocumentId(<<65, 97>>)].annotations # <<>>
  /\ loadAnnotations(documents, <<65, 97>>)
       # documents[generateDocumentId(<<65, 97>>)].annotations
  /\ loadAnnotations(documents, <<67>>) # <<>>

\* C10: when setItem throws during the save effect's write, the promise of
\* saveAnnotations is rejected, the effect leaves no rejection unhandled, and
\* the collection and the history engine are as they were before the effect.
WriteFailureContained ==
  [][(call' = "saveEffect" /\ outcome'.setItem = "threw") =>
       /\ outcome'.promise = "rejected"
       /\ ~outcome'.unhandled
       /\ demo'.annotations = demo.annotations
       /\ history' = history]_vars

\* the write that followed an addition failed, with history on the stacks
WriteFailureContainedWitness ==
  /\ call = "saveEffect"
  /\ outcome.setItem = "threw"
  /\ outcome.promise = "rejected"
  /\ demo.annotations # <<>>
  /\ canUndo

(***************************************************************************)
(* Properties of the gateway's operations on records and of its import.    *)
(***************************************************************************)
\* C11: an update or a delete whose id is not in the document's list (the
\* operation returns before any write) settles without a rejection and leaves
\* the stored documents and the persisted item as they were.
MissingTargetNoOp ==
  [][(call' \in {"updateAnnotation", "deleteAnnotation"} /\ outcome'.setItem = "none") =>
       /\ outcome'.promise = "fulfilled"
       /\ UNCHANGED <<documents, storage>>]_vars

\* the objects an import has parsed in this step
Parsed == {a \in DOMAIN heap' : a > Len(heap)}

\* C12: an import of an array in which some or all records are invalid whose
\* write does not fail, and every load, is fulfilled: the import resolves to
\* the number of valid records, the load to the valid records stored.
MalformedNeverFatal ==
  [][/\ (call' = "importAnnotations" /\ Parsed # {} /\ outcome'.setItem # "threw") =>
          /\ outcome'.promise = "fulfilled"
          /\ ret'.value = Num(Cardinality({a \in Parsed : validateAnnotation(heap'[a])}))
     /\ call' = "loadAnnotations" =>
          /\ outcome'.promise = "fulfilled"
          /\ \A i \in DOMAIN ret'.value : validateAnnotation(heap[ret'.value[i]])]_vars

\* C13: a fulfilled import resolves to the number of parsed records that pass
\* validation, and afterwards the document's list holds every parsed record
\* that passes validation and no parsed record that fails it.
ImportFiltering ==
  [][\A url \in RecordUrls, data \in ImportData :
       (ImportAnnotations(url, data, FALSE) /\ outcome'.promise = "fulfilled") =>
          LET stored == Range(loadAnnotations(documents, url)')
              valid  == {a \in Parsed : validateAnnotation(heap'[a])}
          IN  /\ ret'.value = Num(Cardinality(valid))
              /\ \A a \in Parsed : a \in stored <=> a \in valid]_vars

\* C14: an update leaves every record it replaces with the createdAt it had
\* and with an updatedAt later than the one it had.
UpdateRefreshesUpdatedAt ==
  [][call' = "handleAnnotationUpdate" =>
       \A i \in DOMAIN demo.annotations :
         LET before == heap[demo.annotations[i]]
             after  == heap'[demo'.annotations[i]]
         IN  demo'.annotations[i] # demo.annotations[i] =>
               /\ after.createdAt = before.createdAt
               /\ after.updatedAt.v > before.updatedAt.v]_vars

(***************************************************************************)
(* Properties of the shape capture.                                        *)
(***************************************************************************)
\* C15: a record is emitted only by a pointer-up that finds a draft, one
\* record at most, and the capture is idle afterwards; a draft is opened only
\* by a pointer-down; a pointer-leave or an Escape key that finds a draft
\* leaves the capture idle, without preview and without a record; and a
\* pointer-up that finds no draft emits nothing.
DraftLifecycle ==
  [][/\ emitted' # <<>> =>
          /\ call' = "mouseUp"
          /\ drawingState.isDrawing
          /\ Len(emitted') = 1
          /\ drawingState' = NotDrawing
     /\ (drawingState'.isDrawing /\ ~drawingState.isDrawing) => call' = "mouseDown"
     /\ (call' \in {"mouseLeave", "Escape"} /\ drawingState.isDrawing) =>
          /\ drawingState' = NotDrawing
          /\ emitted' = <<>>
     /\ (call' = "mouseUp" /\ ~drawingState.isDrawing) =>
          /\ drawingState' = NotDrawing
          /\ emitted' = <<>>]_vars

\* a pointer-leave has found a draft with a preview and left the capture idle
DraftLifecycleWitness ==
  /\ call = "mouseLeave"
  /\ recent.wasDrawing
  /\ recent.hadPreview
  /\ drawingState = NotDrawing
  /\ emitted = <<>>

\* the draft is at least 10 view pixels, that is 10 / scale, in each extent
\* (rectangle, circle) or in length (arrow)
MeetsThreshold(shape, scale) ==
  LET threshold == (MinimumPixels * Units) \div scale
      c         == shape.coordinates
  IN  IF shape.type = Arrow
      THEN LET dx == c.points.v[3] - c.points.v[1]
               dy == c.points.v[4] - c.points.v[2]
           IN  dx * dx + dy * dy >= threshold * threshold
      ELSE c.width.v >= threshold /\ c.height.v >= threshold

\* the coordinates, in drafting units, of a rectangle
Box(x, y, width, height) ==
  [ t |-> "object", x |-> Num(x * Units), y |-> Num(y * Units),
    width |-> Num(width * Units), height |-> Num(height * Units),
    points |-> Undefined ]

\* C16: a pointer-up emits the previewed draft if and only if it finds a
\* draft that meets the threshold of 10 / scale; at scale 1 the rectangle
\* dragged from (100,100) to (102,102) is not emitted and the one dragged
\* from (100,100) to (200,150) is emitted as {100, 100, 100, 50}.
MinimumShapeSize ==
  [][call' = "mouseUp" =>
       LET shape == drawingState.previewShape
           drawn == drawingState.isDrawing /\ Truthy(shape)
       IN  /\ emitted' # <<>> <=> (drawn /\ MeetsThreshold(shape, shapeProps.scale))
           /\ emitted' # <<>> => emitted' = <<shape>>
           /\ ( /\ drawn
                /\ shapeProps.scale = 1
                /\ shape.type = Rectangle
                /\ drawingState.startPoint = PointAt([x |-> 100, y |-> 100], 1) ) =>
                  /\ drawingState.currentPoint = PointAt([x |-> 102, y |-> 102], 1)
                       => emitted' = <<>>
                  /\ drawingState.currentPoint = PointAt([x |-> 200, y |-> 150], 1)
                       => /\ Len(emitted') = 1
                          /\ emitted'[1].coordinates = Box(100, 100, 100, 50)]_vars

\* a pointer-up has found a previewed draft and discarded it
MinimumShapeSizeWitness ==
  /\ call = "mouseUp"
  /\ recent.wasDrawing
  /\ recent.hadPreview
  /\ emitted = <<>>
  /\ drawingState = NotDrawing

\* C17: while disabled is true, a pointer-down, a pointer-move and a
\* pointer-up leave the capture state as it is and emit no record.
DisabledIgnoresPointer ==
  [][(shapeProps.disabled /\ call' \in {"mouseDown", "mouseMove", "mouseUp"}) =>
       /\ drawingState' = drawingState
       /\ emitted' = <<>>]_vars

\* C18: the rectangle committed for a drag from p to q at scale s reaches the
\* layer's caller with x = min(p.x, q.x) / s, y = min(p.y, q.y) / s,
\* width = |q.x - p.x| / s and height = |q.y - p.y| / s.
ScaledCapture ==
  [][(call' = "mouseUp" /\ layerAdded' # <<>>) =>
       \A p, q \in ClientPoints :
         LET s == shapeProps.scale
         IN  ( /\ drawingState.previewShape.type = Rectangle
               /\ drawingState.startPoint = PointAt(p, s)
               /\ drawingState.currentPoint = PointAt(q, s) ) =>
                 LET c == layerAdded'[1].coordinates
                 IN  /\ c.x.v = (Min(p.x, q.x) * Units) \div s
                     /\ c.y.v = (Min(p.y, q.y) * Units) \div s
                     /\ c.width.v = (Abs(q.x - p.x) * Units) \div s
                     /\ c.height.v = (Abs(q.y - p.y) * Units) \div s]_vars


(***************************************************************************)
(* Properties of the text selection.                                       *)
(***************************************************************************)
\* C19: a record is created from a text selection only by the Enter key or
\* a click while a text tool (highlight, underline, strikethrough) is
\* selected, or by a double-click while the highlight tool is selected; a
\* selection-change event creates none, and while another tool is selected
\* no event creates one.  The record carries the selection's text and the
\* tool's type.
TextCommitIsExplicit ==
  [][ added' # <<>> =>
        /\ Len(added') = 1
        /\ call' \in {"Enter", "click", "dblclick"}
        /\ Truthy(textProps.selectedTool)
        /\ isTextAnnotationTool(textProps.selectedTool.type)
        /\ call' = "dblclick" => textProps.selectedTool.type = Highlight
        /\ added'[1].type = textProps.selectedTool.type
        /\ added'[1].content =
             (IF call' = "dblclick" THEN selectionService.currentSelection
              ELSE highlighter.currentSelection).text ]_vars

\* a click with the underline tool has committed the selection
TextCommitIsExplicitWitness ==
  /\ call = "click"
  /\ textProps.selectedTool = Tool(Underline)
  /\ Len(added) = 1
  /\ added[1].type = Underline

\* the conditions C20 names for a native selection to be valid
IsValidSelection(selection, service) ==
  /\ selection.rangeCount > 0
  /\ ~selection.collapsed
  /\ findPDFPageContainer(selection.ancestors) # 0
  /\ extractPageNumber(selection.ancestors,
                       findPDFPageContainer(selection.ancestors)) # Null
  /\ \E i \in DOMAIN selection.rects :
       selection.rects[i].width > 1 /\ selection.rects[i].height > 1
  /\ Len(Trim(selection.text)) >= service.options.minSelectionLength.v

\* one call to every listener, with the selection
Broadcast(service, selection) ==
  /\ Len(notified') = Len(service.selectionChangeListeners)
  /\ \A i \in DOMAIN notified' :
       /\ notified'[i].listener = service.selectionChangeListeners[i]
       /\ notified'[i].selection = selection

\* C20: a selection event yields a valid selection iff a page container and
\* its page number are found, a bounding box survives the size filter and
\* the trimmed text is at least as long as the configured minimum; a valid
\* selection becomes the current selection and is broadcast to every
\* listener; an invalid one broadcasts null to every listener and leaves the
\* current selection null, whatever it was before.
SelectionValidity ==
  [][ call' = "selectionchange" =>
        IF IsValidSelection(windowSelection', selectionService)
        THEN /\ selectionService'.currentSelection # Null
             /\ selectionService'.currentSelection.text = Trim(windowSelection'.text)
             /\ Broadcast(selectionService, selectionService'.currentSelection)
        ELSE /\ selectionService'.currentSelection = Null
             /\ Broadcast(selectionService, Null) ]_vars


(***************************************************************************)
(* Properties of the coordinate mapper.                                    *)
(***************************************************************************)
\* C21: for every document rectangle, with a width and a height, with 0
\* for them or without them, and every viewport with a scale above 0 and a
\* normalized rotation, canvasToPdf(pdfToCanvas(r)) equals r in x, y, width
\* and height, and pdfToCanvas(canvasToPdf(r)) equals r likewise.
RoundTrip ==
  (Len(mapper.coordinates) = 3 /\ mapper.viewport.scale > 0) =>
    /\ mapper.coordinates[3].x = mapper.coordinates[1].x
    /\ mapper.coordinates[3].y = mapper.coordinates[1].y
    /\ mapper.coordinates[3].width = mapper.coordinates[1].width
    /\ mapper.coordinates[3].height = mapper.coordinates[1].height

\* C22: createViewportTransform, pdfToCanvas and canvasToPdf with a scale
\* of 0 or less return no viewport and no rectangle.
InvalidGeometryFailsFast ==
  (call \in {"createViewportTransform", "pdfToCanvas", "canvasToPdf"}
     /\ mapper.viewport.scale <= 0) => ret.null


\* C23: after destroy() the service has no listeners and no current
\* selection, and the selectionchange, mouseup or keyup event that follows
\* neither sets the current selection nor calls a listener or the options'
\* callback.
TeardownIsFinal ==
  [][ /\ call' = "destroy" =>
           /\ selectionService'.selectionChangeListeners = <<>>
           /\ selectionService'.currentSelection = Null
      /\ (call = "destroy" /\ call' \in {"selectionchange", "finalizeSelection"}) =>
           /\ selectionService'.currentSelection = Null
           /\ notified' = <<>> ]_vars


DeepEqualityOverEveryField ==
  call = "areAnnotationsEqual" =>
    (ret.value.equal <=>
       /\ Len(ret.value.a) = Len(ret.value.b)
       /\ \A i \in DOMAIN ret.value.a : \E j \in DOMAIN ret.value.b :
            ret.value.a[i] = ret.value.b[j])


\* C26: in every state of the engine the undo stack and the redo stack
\* together hold at most maxHistorySize entries, so that no undo() and no
\* redo() takes a stack past the cap.
StacksShareTheCap ==
  Len(undoStack) + Len(redoStack) <= maxHistorySize

\* undo() has moved every entry of a full undo stack to the redo stack
StacksShareTheCapWitness ==
  /\ call = "undo"
  /\ undoStack = <<>>
  /\ Len(redoStack) = maxHistorySize


\* C27: initialize(list) leaves both stacks empty and list the current
\* state, and a debounced save that was scheduled before the initialize does
\* not change the engine when its timer fires after it.
InitializeResets ==
  [][ /\ call' = "initialize" => (undoStack' = <<>> /\ redoStack' = <<>>)
      /\ (call = "initialize" /\ call' = "timer") =>
           /\ undoStack' = <<>>
           /\ redoStack' = <<>>
           /\ currentState' = currentState ]_vars

(***************************************************************************)
(* Properties of the orchestrator and its history engine.                  *)
(***************************************************************************)
\* the records of a list, as a set of values
RecordsOf(list) == {heap[list[i]] : i \in DOMAIN list}

\* C28: after every add, update, delete, undo and redo the orchestrator has
\* handled, the current state of the history engine holds the same records
\* as the list of the orchestrator, equal in every field, updatedAt included.
HistoryTracksStore ==
  call \in {"handleAnnotationAdd", "handleAnnotationUpdate", "handleSave",
            "handleAnnotationDelete", "handleUndo", "handleRedo"}
    => /\ Len(currentState) = Len(demo.annotations)
       /\ RecordsOf(currentState) = RecordsOf(demo.annotations)

\* C29: when the open document changes to one with another key, the list
\* persisted under the key of the new document is not changed by the change:
\* no record of the collection of the document left is stored under it.
NoCrossDocumentBleed ==
  [][ \A url \in Urls :
        ( /\ call' = "setPdfUrl"
          /\ demo'.pdfUrl = url
          /\ generateDocumentId(url) # generateDocumentId(demo.pdfUrl) )
          => PersistedFor(url)' = PersistedFor(url) ]_vars

(***************************************************************************)
(* Properties of the annotation layer.                                     *)
(***************************************************************************)
\* C30: the rectangle committed for a drag from p to q under the viewport of
\* scale s and rotation 0, converted back with pdfToCanvas under the same
\* viewport and page dimensions as the layer does for display, is the view
\* rectangle that was drawn: x = min(p.x, q.x), y = min(p.y, q.y),
\* width = |q.x - p.x| and height = |q.y - p.y|.
CaptureAndRenderingAgree ==
  [][(call' = "mouseUp" /\ layerAdded' # <<>>) =>
       \A p, q \in ClientPoints :
         LET s == shapeProps.scale
         IN  ( /\ drawingState.previewShape.type = Rectangle
               /\ drawingState.startPoint = PointAt(p, s)
               /\ drawingState.currentPoint = PointAt(q, s) ) =>
                 LET canvasCoords ==
                       pdfToCanvas(layerAdded'[1].coordinates, pageDimensions,
                                   createViewportTransform(s, 0, 0, 0))
                 IN  /\ canvasCoords.x = Num(Min(p.x, q.x) * Units)
                     /\ canvasCoords.y = Num(Min(p.y, q.y) * Units)
                     /\ canvasCoords.width = Num(Abs(q.x - p.x) * Units)
                     /\ canvasCoords.height = Num(Abs(q.y - p.y) * Units)]_vars

(***************************************************************************)
(* Further properties of the persistence gateway.                          *)
(***************************************************************************)
\* C31: when setItem throws during saveAnnotations(url, list), load of every
\* locator returns afterwards what it returned before the save, and no
\* document's version has advanced.
FailedWriteLeavesGateway ==
  [][(call' = "saveAnnotations" /\ outcome'.setItem = "threw") =>
       \A url \in Urls :
         /\ loadAnnotations(documents', url) = loadAnnotations(documents, url)
         /\ VersionOf(documents', generateDocumentId(url))
              = VersionOf(documents, generateDocumentId(url))]_vars

\* the records of a list of references
Stored(list) == {list[i] : i \in DOMAIN list}

\* C32: an addAnnotation call whose write succeeds has taken effect together
\* with every call completed before it, also one that was made while it
\* waited: the list stored for its document holds its annotation and every
\* record load returned for the document just before it went on.
NoLostUpdate ==
  [][(call' = "addAnnotationResumed" /\ outcome'.promise = "fulfilled") =>
       LET resumed == inFlight[1]
       IN  /\ resumed.annotation
                \in Stored(loadAnnotations(documents', resumed.pdfUrl))
           /\ Stored(loadAnnotations(documents, resumed.pdfUrl))
                \subseteq Stored(loadAnnotations(documents', resumed.pdfUrl))]_vars

(***************************************************************************)
(* A further property of undo and redo.                                    *)
(***************************************************************************)
\* C33: from every state with a non-empty undo stack, undo() followed at once
\* by redo() leaves the undo stack as it was: its top entry has the same
\* snapshot and the same action (type, description, annotationIds), so
\* getLastActionDescription returns the same text.
UndoRedoRestoresStack ==
  canUndo =>
    LET undone == undo(Engine).engine
        redone == redo(undone).engine
    IN  /\ Len(redone.undoStack) = Len(undoStack)
        /\ Top(redone.undoStack).annotations = Top(undoStack).annotations
        /\ Top(redone.undoStack).action = Top(undoStack).action

(***************************************************************************)
(* Further properties of the gateway's import and validation.              *)
(***************************************************************************)
\* C34: when the ids of the records stored for a document are pairwise
\* distinct before an importAnnotations that is fulfilled, they are pairwise
\* distinct after it, whether an imported record has an id already stored or
\* the imported array holds an id more than once.
ImportKeepsIdsDistinct ==
  [][(call' = "importAnnotations" /\ outcome'.promise = "fulfilled") =>
       \A url \in RecordUrls :
         LET documentId == generateDocumentId(url)
         IN  ( /\ documentId \in DOMAIN documents'
               /\ documentId \in DOMAIN documents =>
                    DistinctIds(documents[documentId].annotations, heap) ) =>
               DistinctIds(documents'[documentId].annotations, heap')]_vars

\* C35: a record passes the filter of load and import exactly when its id is
\* a non-empty string, its pageNumber is a number not less than 1, its
\* coordinates.x and coordinates.y are finite numbers and its style.color is
\* a non-empty string.
AcceptedIffValid ==
  call = "validateAnnotation" =>
    LET annotation == ret.value.annotation
    IN  ret.value.valid <=>
          /\ annotation.id.t = "string" /\ annotation.id.v # 0
          /\ annotation.pageNumber.t = "number" /\ annotation.pageNumber.v >= 1
          /\ annotation.coordinates.x.t = "number"
          /\ annotation.coordinates.y.t = "number"
          /\ annotation.style.color.t = "string" /\ annotation.style.color.v # 0

(***************************************************************************)
(* A further property of the text selection.                               *)
(***************************************************************************)
\* C36: an event that commits a text selection passes exactly one record to
\* onAnnotationAdd; its coordinates are the rectangle getBoundingBox returns
\* for the bounding boxes of the selection committed, its content is the
\* selection's text and its pageNumber is the selection's page.
CommitEnclosesSelection ==
  [][ added' # <<>> =>
        LET selection == IF call' = "dblclick" THEN selectionService.currentSelection
                         ELSE highlighter.currentSelection
            enclosing == getBoundingBox(selection.boundingBoxes)
        IN  /\ Len(added') = 1
            /\ added'[1].coordinates.x = enclosing.x
            /\ added'[1].coordinates.y = enclosing.y
            /\ added'[1].coordinates.width = enclosing.width
            /\ added'[1].coordinates.height = enclosing.height
            /\ added'[1].content = selection.text
            /\ added'[1].pageNumber = selection.pageNumber ]_vars

\* a click has committed a selection of two lines of unequal width: the
\* record is as wide as the wider line and as high as both
CommitEnclosesSelectionWitness ==
  /\ call = "click"
  /\ Len(added) = 1
  /\ added[1].coordinates.width = Num(150)
  /\ added[1].coordinates.height = Num(40)
  /\ added[1].content # <<>>

(***************************************************************************)
(* A further property of ShapeDrawer.                                      *)
(***************************************************************************)
\* C37: with the circle tool the preview, and the record committed from it,
\* is a square: its width equals its height, whatever the anchor point and
\* the pointer position.
CircleIsSquare ==
  /\ ( /\ Truthy(drawingState.previewShape)
       /\ drawingState.previewShape.type = Circle )
       => drawingState.previewShape.coordinates.width
            = drawingState.previewShape.coordinates.height
  /\ \A i \in DOMAIN emitted :
       emitted[i].type = Circle =>
         emitted[i].coordinates.width = emitted[i].coordinates.height


====
